---- MODULE Spec2Model ----
(***************************************************************************)
(* Tagify: the Request Coordinator (src/src/utils/RateLimiter.ts) and the  *)
(* resumable migration driver (src/src/utils/migration.ts).                *)
(*                                                                         *)
(* Seven specifications share this module.  SpecRL runs one RateLimiter    *)
(* instance under concurrent callers and a clock; SpecTimed runs the same  *)
(* instance under an event loop that fires every due timer; SpecMig runs   *)
(* the migration driver over a dataset, a Local Store and fetch outcomes,  *)
(* next to the other writer of the stored dataset (useMetadataBackfill.ts);*)
(* SpecThrottle runs one invocation of the driver in which a fetch of any  *)
(* batch can fail; SpecMigFair is SpecMig under the condition that delays  *)
(* run out and batches settle; SpecShared runs the driver next to the      *)
(* keyboard shortcut that rates a record (KeyboardShortcutService.ts);     *)
(* SpecResume runs two launches in which early batches can fail whole.     *)
(* The coordinator and the driver leave each other's variables untouched.  *)
(***************************************************************************)
EXTENDS Integers, Sequences, FiniteSets, TLC

VARIABLES
  \* ---- RateLimiter instance (RateLimiter.ts:33-38) and its environment
  now,                \* Date.now(), in ms
  ticks,              \* how many times the clock has advanced
  requestHistory,     \* RequestRecord[]
  pendingRequests,    \* Map<string, PendingRequest>
  circuitOpen,
  circuitOpenedAt,
  consecutiveErrors,
  promises,           \* the promises built by execute, line 165, in creation order
  calls,              \* the execute(key, fn) calls issued so far, in issue order
  observer,           \* what an outside observer of the completions has counted
  \* ---- Migration driver (migration.ts), the Local Store and the dataset
  tagData,            \* the dataset the application holds and stores (setTagData)
  migrationStore,     \* localStorage["tagify:migrations"]
  progressStore,      \* localStorage["tagify:migrationProgress"]
  trackInfoCache,     \* localStorage["tagify:trackInfoCache"], read by TrackInfoCacheManager
  pc,                 \* where the driver is: "idle", "fetching", "throttle"
  run,                \* the locals of the invocation in progress
  hist                \* what an outside observer of the invocations has recorded

rlVars == <<now, ticks, requestHistory, pendingRequests, circuitOpen,
            circuitOpenedAt, consecutiveErrors, promises, calls, observer>>

migVars == <<tagData, migrationStore, progressStore, trackInfoCache, pc, run, hist>>

vars == <<rlVars, migVars>>

----------------------------------------------------------------------------
(* Bounds of the model *)

MaxCalls == 3
MaxTicks == 2
NumTracks == 56
MaxRuns == 2

\* Keys callers pass to execute, and the steps by which the clock advances.
Keys == {"a", "b"}
Steps == {1000, 1500, 58000}

----------------------------------------------------------------------------
(* RateLimiterConfig of the modelled instance (all fields are              *)
(* caller-overridable, RateLimiter.ts:40-42).                              *)

maxRequestsPerSecond == 1
maxRequestsPerMinute == 2
circuitBreakerThreshold == 2
circuitBreakerResetMs == 1500
requestTimeoutMs == 1500

\* The two windows of checkRateLimits and its fallback waits.
SecondMs == 1000
MinuteMs == 60000
FallbackSecondMs == 100
FallbackMinuteMs == 1000
DefaultDelayMs == 100

NoPending == [promise |-> 0, timestamp |-> 0]
NoWait == 0 - 1

\* Outcomes of the operation passed to execute.
OpError == "operation error"
TimeoutError == "Request timeout"
CircuitOpenError == "RateLimiter: Circuit breaker open"

----------------------------------------------------------------------------
(* Helpers *)

Min(S) == CHOOSE x \in S : \A y \in S : x <= y

RECURSIVE InsertByTimestamp(_, _)
InsertByTimestamp(sorted, r) ==
  IF sorted = <<>> THEN <<r>>
  ELSE IF Head(sorted).timestamp <= r.timestamp
       THEN <<Head(sorted)>> \o InsertByTimestamp(Tail(sorted), r)
       ELSE <<r>> \o sorted

RECURSIVE SortByTimestamp(_)
\* Array.prototype.sort((a, b) => a.timestamp - b.timestamp): stable, ascending
SortByTimestamp(s) ==
  IF s = <<>> THEN <<>>
  ELSE InsertByTimestamp(SortByTimestamp(SubSeq(s, 1, Len(s) - 1)), s[Len(s)])

----------------------------------------------------------------------------
(* checkRateLimits, RateLimiter.ts:47-88.  Returns the pruned (and, on the *)
(* per-minute branch, sorted) history with the verdict.                    *)

\* The check leaving the history as it finds it.
PruneHistory_Keeps(h, t) == h

PruneHistory(h, t) == SelectSeq(h, LAMBDA r : t - r.timestamp < MinuteMs)

LastSecond(h, t) == SelectSeq(h, LAMBDA r : t - r.timestamp < SecondMs)

\* The check taking its wait from the newest sample of the window.
checkRateLimits_FromNewest(h, t) ==
  LET pruned == PruneHistory(h, t)
      inSecond == LastSecond(pruned, t)
  IN IF Len(inSecond) >= maxRequestsPerSecond
     THEN LET sortedWindow == SortByTimestamp(inSecond)
          IN [history |-> pruned,
              allowed |-> FALSE,
              retryAfterMs |-> IF sortedWindow # <<>>
                               THEN SecondMs - (t - sortedWindow[Len(sortedWindow)].timestamp)
                               ELSE FallbackSecondMs]
     ELSE IF Len(pruned) >= maxRequestsPerMinute
     THEN LET sortedAll == SortByTimestamp(pruned)
          IN [history |-> sortedAll,
              allowed |-> FALSE,
              retryAfterMs |-> IF sortedAll # <<>>
                               THEN MinuteMs - (t - sortedAll[Len(sortedAll)].timestamp)
                               ELSE FallbackMinuteMs]
     ELSE [history |-> pruned, allowed |-> TRUE, retryAfterMs |-> NoWait]

checkRateLimits(h, t) ==
  LET pruned == PruneHistory(h, t)
      inSecond == LastSecond(pruned, t)
  IN IF Len(inSecond) >= maxRequestsPerSecond
     THEN LET sortedWindow == SortByTimestamp(inSecond)
          IN [history |-> pruned,
              allowed |-> FALSE,
              retryAfterMs |-> IF sortedWindow # <<>>
                               THEN SecondMs - (t - sortedWindow[1].timestamp)
                               ELSE FallbackSecondMs]
     ELSE IF Len(pruned) >= maxRequestsPerMinute
     THEN LET sortedAll == SortByTimestamp(pruned)
          IN [history |-> sortedAll,
              allowed |-> FALSE,
              retryAfterMs |-> IF sortedAll # <<>>
                               THEN MinuteMs - (t - sortedAll[1].timestamp)
                               ELSE FallbackMinuteMs]
     ELSE [history |-> pruned, allowed |-> TRUE, retryAfterMs |-> NoWait]

----------------------------------------------------------------------------
(* checkCircuitBreaker, RateLimiter.ts:93-105 *)

CooldownElapsed == now - circuitOpenedAt >= circuitBreakerResetMs

\* The breaker with the cool-down check left out.
checkCircuitBreaker_NoReset == ~circuitOpen

checkCircuitBreaker == (~circuitOpen) \/ CooldownElapsed

----------------------------------------------------------------------------
(* recordSuccess / recordError, RateLimiter.ts:110-129 *)

\* recordSuccess leaving the error count as it is.
recordSuccess_KeepsCount ==
  /\ requestHistory' = Append(requestHistory, [timestamp |-> now, success |-> TRUE])
  /\ UNCHANGED <<consecutiveErrors, circuitOpen, circuitOpenedAt>>

recordSuccess ==
  /\ requestHistory' = Append(requestHistory, [timestamp |-> now, success |-> TRUE])
  /\ consecutiveErrors' = 0
  /\ UNCHANGED <<circuitOpen, circuitOpenedAt>>

\* recordError opening the circuit one failure late (> for >=).
recordError_OpensLate ==
  /\ requestHistory' = Append(requestHistory, [timestamp |-> now, success |-> FALSE])
  /\ consecutiveErrors' = consecutiveErrors + 1
  /\ IF consecutiveErrors + 1 > circuitBreakerThreshold
     THEN circuitOpen' = TRUE /\ circuitOpenedAt' = now
     ELSE UNCHANGED <<circuitOpen, circuitOpenedAt>>

recordError ==
  /\ requestHistory' = Append(requestHistory, [timestamp |-> now, success |-> FALSE])
  /\ consecutiveErrors' = consecutiveErrors + 1
  /\ IF consecutiveErrors + 1 >= circuitBreakerThreshold
     THEN circuitOpen' = TRUE /\ circuitOpenedAt' = now
     ELSE UNCHANGED <<circuitOpen, circuitOpenedAt>>

----------------------------------------------------------------------------
ObserveReset == [observer EXCEPT !.failStreak = 0]

(* execute, RateLimiter.ts:136-179: the synchronous part of one entry of   *)
(* execute for call c with key k, up to its first suspension.              *)

\* Is the pending entry of k a live duplicate (lines 148-152)?
HasLivePending(k) ==
  /\ pendingRequests[k] # NoPending
  /\ now - pendingRequests[k].timestamp < requestTimeoutMs

\* execute counting a call that attaches as a request of its own.
ExecuteBody_AttachCounts(c, k, tries) ==
  LET entry == [open |-> circuitOpen,
                elapsed |-> CooldownElapsed,
                errors |-> consecutiveErrors,
                streak |-> observer.failStreak,
                cooling |-> now - observer.trippedAt < circuitBreakerResetMs]
      base == [key |-> k, st |-> "entered", tries |-> tries, entry |-> entry,
               promise |-> 0, wakeAt |-> 0, retryAfterMs |-> NoWait]
      put(r) == IF c > Len(calls) THEN Append(calls, r) ELSE [calls EXCEPT ![c] = r]
  IN
  IF ~checkCircuitBreaker
  THEN \* lines 138-145: throw, nothing else happens
       /\ calls' = put([base EXCEPT !.st = "circuitOpen",
                                    !.retryAfterMs = circuitBreakerResetMs - (now - circuitOpenedAt)])
       /\ UNCHANGED <<requestHistory, pendingRequests, circuitOpen,
                      circuitOpenedAt, consecutiveErrors, promises, observer>>
  ELSE
    \* lines 97-101: lazy reset
    /\ IF circuitOpen
       THEN circuitOpen' = FALSE /\ consecutiveErrors' = 0 /\ observer' = ObserveReset
       ELSE UNCHANGED <<circuitOpen, consecutiveErrors, observer>>
    /\ UNCHANGED circuitOpenedAt
    /\ IF HasLivePending(k)
       THEN \* lines 148-154: attach
            /\ calls' = put([base EXCEPT !.st = "attached",
                                         !.promise = pendingRequests[k].promise])
            /\ requestHistory' = Append(requestHistory, [timestamp |-> now, success |-> TRUE])
            /\ UNCHANGED <<pendingRequests, promises>>
       ELSE LET rl == checkRateLimits(requestHistory, now)
            IN /\ requestHistory' = rl.history
               /\ IF ~rl.allowed
                  THEN \* lines 158-162: wait, then re-enter execute
                       /\ calls' = put([base EXCEPT
                             !.st = "delay",
                             !.retryAfterMs = rl.retryAfterMs,
                             !.wakeAt = now + (IF rl.retryAfterMs = 0
                                               THEN DefaultDelayMs
                                               ELSE rl.retryAfterMs)])
                       /\ UNCHANGED <<pendingRequests, promises>>
                  ELSE \* lines 165-178: invoke the operation, register the promise
                       /\ promises' = Append(promises,
                             [key |-> k, startedAt |-> now, state |-> "pending",
                              result |-> "none"])
                       /\ pendingRequests' = [pendingRequests EXCEPT ![k] =
                             [promise |-> Len(promises) + 1, timestamp |-> now]]
                       /\ calls' = put([base EXCEPT !.st = "invoked",
                                                    !.promise = Len(promises) + 1])

ExecuteBody(c, k, tries) ==
  LET entry == [open |-> circuitOpen,
                elapsed |-> CooldownElapsed,
                errors |-> consecutiveErrors,
                streak |-> observer.failStreak,
                cooling |-> now - observer.trippedAt < circuitBreakerResetMs]
      base == [key |-> k, st |-> "entered", tries |-> tries, entry |-> entry,
               promise |-> 0, wakeAt |-> 0, retryAfterMs |-> NoWait]
      put(r) == IF c > Len(calls) THEN Append(calls, r) ELSE [calls EXCEPT ![c] = r]
  IN
  IF ~checkCircuitBreaker
  THEN \* lines 138-145: throw, nothing else happens
       /\ calls' = put([base EXCEPT !.st = "circuitOpen",
                                    !.retryAfterMs = circuitBreakerResetMs - (now - circuitOpenedAt)])
       /\ UNCHANGED <<requestHistory, pendingRequests, circuitOpen,
                      circuitOpenedAt, consecutiveErrors, promises, observer>>
  ELSE
    \* lines 97-101: lazy reset
    /\ IF circuitOpen
       THEN circuitOpen' = FALSE /\ consecutiveErrors' = 0 /\ observer' = ObserveReset
       ELSE UNCHANGED <<circuitOpen, consecutiveErrors, observer>>
    /\ UNCHANGED circuitOpenedAt
    /\ IF HasLivePending(k)
       THEN \* lines 148-154: attach
            /\ calls' = put([base EXCEPT !.st = "attached",
                                         !.promise = pendingRequests[k].promise])
            /\ UNCHANGED <<requestHistory, pendingRequests, promises>>
       ELSE LET rl == checkRateLimits(requestHistory, now)
            IN /\ requestHistory' = rl.history
               /\ IF ~rl.allowed
                  THEN \* lines 158-162: wait, then re-enter execute
                       /\ calls' = put([base EXCEPT
                             !.st = "delay",
                             !.retryAfterMs = rl.retryAfterMs,
                             !.wakeAt = now + (IF rl.retryAfterMs = 0
                                               THEN DefaultDelayMs
                                               ELSE rl.retryAfterMs)])
                       /\ UNCHANGED <<pendingRequests, promises>>
                  ELSE \* lines 165-178: invoke the operation, register the promise
                       /\ promises' = Append(promises,
                             [key |-> k, startedAt |-> now, state |-> "pending",
                              result |-> "none"])
                       /\ pendingRequests' = [pendingRequests EXCEPT ![k] =
                             [promise |-> Len(promises) + 1, timestamp |-> now]]
                       /\ calls' = put([base EXCEPT !.st = "invoked",
                                                    !.promise = Len(promises) + 1])

\* A caller issues execute(k, fn).
Execute(k) ==
  /\ Len(calls) < MaxCalls
  /\ ExecuteBody(Len(calls) + 1, k, 1)
  /\ UNCHANGED <<now, ticks, migVars>>

\* The delay of line 160 is over: `return this.execute(key, requestFn)`.
Retry(c) ==
  /\ calls[c].st = "delay"
  /\ now >= calls[c].wakeAt
  /\ ExecuteBody(c, calls[c].key, calls[c].tries + 1)
  /\ UNCHANGED <<now, ticks, migVars>>

----------------------------------------------------------------------------
(* Settlement of the promise of lines 165-175 *)

\* The observer counts failed completions since the last successful one or
\* the last circuit reset, and notes when that count reached the threshold.
ObserveSuccess == [observer EXCEPT !.failStreak = 0]

ObserveFailure ==
  [failStreak |-> observer.failStreak + 1,
   trippedAt |-> IF observer.failStreak + 1 = circuitBreakerThreshold
                 THEN now ELSE observer.trippedAt]

Settle(p, state, result) ==
  promises' = [promises EXCEPT ![p] = [@ EXCEPT !.state = state, !.result = result]]

\* pendingRequests.delete(key), lines 168 and 173
DeletePending(k) == [pendingRequests EXCEPT ![k] = NoPending]

\* requestFn resolved first: .then(...)
Succeed(p) ==
  /\ promises[p].state = "pending"
  /\ recordSuccess
  /\ pendingRequests' = DeletePending(promises[p].key)
  /\ Settle(p, "fulfilled", "value")
  /\ observer' = ObserveSuccess
  /\ UNCHANGED <<now, ticks, calls, migVars>>

\* The .catch handler leaving the pending entry in place.
Fail_KeepsPending(p) ==
  /\ promises[p].state = "pending"
  /\ recordError
  /\ UNCHANGED pendingRequests
  /\ Settle(p, "rejected", OpError)
  /\ observer' = ObserveFailure
  /\ UNCHANGED <<now, ticks, calls, migVars>>

\* requestFn rejected first: .catch(...)
Fail(p) ==
  /\ promises[p].state = "pending"
  /\ recordError
  /\ pendingRequests' = DeletePending(promises[p].key)
  /\ Settle(p, "rejected", OpError)
  /\ observer' = ObserveFailure
  /\ UNCHANGED <<now, ticks, calls, migVars>>

\* The timer rejecting without the failure being recorded.
Timeout_Unrecorded(p) ==
  /\ promises[p].state = "pending"
  /\ now - promises[p].startedAt >= requestTimeoutMs
  /\ pendingRequests' = DeletePending(promises[p].key)
  /\ Settle(p, "rejected", TimeoutError)
  /\ UNCHANGED <<requestHistory, consecutiveErrors, circuitOpen, circuitOpenedAt,
                 observer, now, ticks, calls, migVars>>

\* executeWithTimeout, lines 184-194: the timer rejected first
Timeout(p) ==
  /\ promises[p].state = "pending"
  /\ now - promises[p].startedAt >= requestTimeoutMs
  /\ recordError
  /\ pendingRequests' = DeletePending(promises[p].key)
  /\ Settle(p, "rejected", TimeoutError)
  /\ observer' = ObserveFailure
  /\ UNCHANGED <<now, ticks, calls, migVars>>

----------------------------------------------------------------------------
(* The clock.  Timers fire when they are due: time does not pass a timer   *)
(* that has not fired (the timeout of a pending promise, the delay of a    *)
(* waiting call).                                                          *)

Deadlines ==
  {promises[p].startedAt + requestTimeoutMs :
      p \in {q \in 1..Len(promises) : promises[q].state = "pending"}}
  \cup {calls[c].wakeAt : c \in {d \in 1..Len(calls) : calls[d].st = "delay"}}

Tick(d) ==
  /\ ticks < MaxTicks
  /\ \A t \in Deadlines : now + d <= t
  /\ now' = now + d
  /\ ticks' = ticks + 1
  /\ UNCHANGED <<requestHistory, pendingRequests, circuitOpen, circuitOpenedAt,
                 consecutiveErrors, promises, calls, observer, migVars>>

----------------------------------------------------------------------------
InitRL ==
  /\ now = 0
  /\ ticks = 0
  /\ requestHistory = <<>>
  /\ pendingRequests = [k \in Keys |-> NoPending]
  /\ circuitOpen = FALSE
  /\ circuitOpenedAt = 0
  /\ consecutiveErrors = 0
  /\ promises = <<>>
  /\ calls = <<>>
  /\ observer = [failStreak |-> 0, trippedAt |-> 0]

NextRL ==
  \/ \E k \in Keys : Execute(k)
  \/ \E c \in 1..Len(calls) : Retry(c)
  \/ \E p \in 1..Len(promises) : Succeed(p)
  \/ \E p \in 1..Len(promises) : Fail(p)
  \/ \E p \in 1..Len(promises) : Timeout(p)
  \/ \E d \in Steps : Tick(d)

----------------------------------------------------------------------------
(* Migration driver, src/src/utils/migration.ts *)

CURRENT_VERSION == "1.0.0"
DefaultVersion == "0.0.0"

BATCH_SIZE == 5
BASE_DELAY_BETWEEN_BATCHES_MS == 500
SAVE_EVERY_N_BATCHES == 10
MAX_RETRIES_PER_TRACK == 3
MAX_CONSECUTIVE_FAILURES == 10
MaxBatchDelayMs == 5000
BackoffBaseMs == 1000
BackoffCapMs == 30000
\* currentDelay is multiplied by 1.5; it is kept in 1/32 ms so that it stays
\* an integer (500 * 1.5^n is a multiple of 1/32 up to the 5000 ms cap).
DelayScale == 32

Absent == "absent"            \* undefined: a missing (falsy) field
NullBpm == "null"             \* bpm: null
\* getItem returns null: the key is not in localStorage
NoState ==
  [version |-> "none",
   migrations |-> [cleanupEmptyTracks |-> FALSE,
                   addTrackMetadata |-> FALSE,
                   removeTrackInfoCache |-> FALSE]]
NoProgress ==
  [migrationName |-> "none", processedUris |-> {}, failedUris |-> {}, totalTracks |-> 0]
\* no invocation of the driver is suspended
NoRun == [i |-> 0 - 1]
NoError == [status |-> 0, message |-> <<>>]

Minimum(a, b) == IF a <= b THEN a ELSE b

RECURSIVE Pow2(_)
Pow2(n) == IF n = 0 THEN 1 ELSE 2 * Pow2(n - 1)

\* ---- URIs: "spotify:track:<id>" and "spotify:local:<id>", split at ":"
TrackUri(id) == <<"spotify", "track", id>>
LocalUri(id) == <<"spotify", "local", id>>

\* uri.startsWith("spotify:local:"), lines 141
IsLocalUri(uri) == Len(uri) >= 3 /\ uri[1] = "spotify" /\ uri[2] = "local"

\* uri.split(":").pop(), line 271
TrackIdOf(uri) == uri[Len(uri)]

\* ---- Datasets: the entries of TagDataStructure.tracks (an object keyed by
\* URI) in the order in which Object.keys and Object.entries enumerate them.
UrisOf(data) == [i \in 1..Len(data) |-> data[i].uri]

UriSet(data) == {data[i].uri : i \in 1..Len(data)}

IndexOf(data, uri) == CHOOSE i \in 1..Len(data) : data[i].uri = uri

TrackOf(data, uri) == data[IndexOf(data, uri)].track

SetTrack(data, uri, t) == [data EXCEPT ![IndexOf(data, uri)].track = t]

\* isTrackEmpty, lines 54-61
isTrackEmpty(trackData) ==
  /\ trackData.rating = 0
  /\ trackData.energy = 0
  /\ Len(trackData.tags) = 0

\* lines 144-145, 199-200, 251-252
NeedsMetadata(track) == track.name = Absent \/ track.artists = Absent
NeedsBpm(track) == track.bpm = NullBpm

\* ---- Errors and their classification
Includes(message, word) == \E i \in 1..Len(message) : message[i] = word

\* A classification that takes every error for a transient one.
isRetryableError_Always(error) == TRUE

\* isRetryableError, lines 38-47
isRetryableError(error) ==
  \/ error.status = 429
  \/ Includes(error.message, "network")
  \/ Includes(error.message, "fetch")
  \/ Includes(error.message, "timeout")

Err429 == [status |-> 429, message |-> <<"Too", "Many", "Requests">>]
ErrNetwork == [status |-> 0, message |-> <<"network", "error">>]
ErrFetch == [status |-> 0, message |-> <<"Failed", "to", "fetch">>]
ErrTimeout == [status |-> 0, message |-> <<"Request", "timeout">>]
ErrNotFound == [status |-> 404, message |-> <<"Not", "Found">>]
ErrCircuitOpen ==
  [status |-> 0,
   message |-> <<"RateLimiter:", "Circuit", "breaker", "open.", "Retry", "after", "ms">>]

\* getBackoffDelay, lines 49-52
getBackoffDelay(attempt, baseDelay) ==
  Minimum(baseDelay * Pow2(attempt), BackoffCapMs)

\* ---- getMigrationState, lines 63-71
\* getMigrationState never finding what was stored.
getMigrationState_Fresh(store) ==
  [version |-> DefaultVersion,
   migrations |-> [cleanupEmptyTracks |-> FALSE,
                   addTrackMetadata |-> FALSE,
                   removeTrackInfoCache |-> FALSE]]

getMigrationState(store) ==
  IF store # NoState THEN store
  ELSE [version |-> DefaultVersion,
        migrations |-> [cleanupEmptyTracks |-> FALSE,
                        addTrackMetadata |-> FALSE,
                        removeTrackInfoCache |-> FALSE]]

\* ---- cleanupEmptyTracksMigration, lines 104-125
cleanupEmptyTracksMigration(currentData) ==
  SelectSeq(currentData, LAMBDA e : ~isTrackEmpty(e.track))

\* TrackInfoCacheManager.removeTrackInfo for every empty track, line 114
CacheAfterCleanup(currentData, cache) ==
  cache \ UriSet(SelectSeq(currentData, LAMBDA e : isTrackEmpty(e.track)))

\* The targets chosen without leaving out the local files.
tracksNeedingWork_WithLocal(currentData) ==
  UrisOf(SelectSeq(currentData,
                   LAMBDA e : NeedsMetadata(e.track) \/ NeedsBpm(e.track)))

\* ---- tracksNeedingWork, lines 137-148
tracksNeedingWork(currentData) ==
  UrisOf(SelectSeq(currentData,
                   LAMBDA e : /\ ~IsLocalUri(e.uri)
                              /\ (NeedsMetadata(e.track) \/ NeedsBpm(e.track))))

remainingTracks_IgnoresCheckpoint(targets, processedUris, failedUris) == targets

\* ---- remainingTracks, lines 182-184
remainingTracks(targets, processedUris, failedUris) ==
  SelectSeq(targets, LAMBDA uri : uri \notin processedUris \/ uri \in failedUris)

\* ---- First pass, lines 189-222.  acc carries updatedData, processedUris,
\* failedUris and stillNeedWork through the loop.
CachedName == "cached name"
CachedArtists == "cached artists"

\* lines 191-194
CacheSkipped(acc, uri) ==
  uri \in acc.failedUris /\ uri \notin acc.processedUris

\* lines 202-213: TrackInfoCacheManager.getTrackInfo finds the key
CacheHit(acc, cache, e) ==
  /\ ~CacheSkipped(acc, e.uri)
  /\ NeedsMetadata(e.track)
  /\ e.uri \in cache

\* The first pass taking a record for resolved as soon as its name and
\* artists are there.
CacheStillNeeds_MetadataOnly(acc, cache, e) ==
  \/ CacheSkipped(acc, e.uri)
  \/ (NeedsMetadata(e.track) /\ e.uri \notin cache)

\* lines 191-194 and 216-217
CacheStillNeeds(acc, cache, e) ==
  \/ CacheSkipped(acc, e.uri)
  \/ (NeedsMetadata(e.track) /\ e.uri \notin cache)
  \/ NeedsBpm(e.track)

\* The keys of remaining are distinct and an iteration reads and writes only
\* the entries of its own key, so the loop is written entry by entry.
CachePass(remaining, cache, acc) ==
  LET keys == {remaining[i] : i \in 1..Len(remaining)}
      data == acc.updatedData
      visited == {i \in 1..Len(data) : data[i].uri \in keys}
      resolved == {data[i].uri : i \in {j \in visited : ~CacheStillNeeds(acc, cache, data[j])}}
  IN [updatedData |->
        [i \in 1..Len(data) |->
           IF i \in visited /\ CacheHit(acc, cache, data[i])
           THEN [data[i] EXCEPT !.track.name = CachedName,
                                !.track.artists = CachedArtists]
           ELSE data[i]],
      processedUris |-> acc.processedUris \cup resolved,
      failedUris |-> acc.failedUris \ resolved,
      stillNeedWork |-> SelectSeq(remaining, LAMBDA uri : uri \notin resolved)]

\* ---- The per-record effort, lines 249-309.  `script` gives what the two
\* fetchers answer on each attempt; its last entry repeats.
FetchedName == "fetched name"
FetchedArtists == "fetched artists"
FetchedBpm == "128"

NoUpdates == [name |-> Absent, artists |-> Absent, bpm |-> Absent]

Value == [kind |-> "value", error |-> NoError]
Null == [kind |-> "null", error |-> NoError]
Throws(e) == [kind |-> "error", error |-> e]

\* One pass through the try block, lines 259-281
Attempt(needsMetadata, needsBpm, uri, resp, updates) ==
  LET fetchTrack == needsMetadata /\ updates.name = Absent
      trackThrew == fetchTrack /\ resp.track.kind = "error"
      afterTrack == IF fetchTrack /\ resp.track.kind = "value"
                    THEN [updates EXCEPT !.name = FetchedName, !.artists = FetchedArtists]
                    ELSE updates
      fetchBpm == (~trackThrew) /\ needsBpm /\ afterTrack.bpm = Absent
                  /\ TrackIdOf(uri) # ""
      bpmThrew == fetchBpm /\ resp.bpm.kind = "error"
      afterBpm == IF fetchBpm /\ resp.bpm.kind = "value"
                  THEN [afterTrack EXCEPT !.bpm = FetchedBpm]
                  ELSE afterTrack
  IN [threw |-> trackThrew \/ bpmThrew,
      error |-> IF trackThrew THEN resp.track.error
                ELSE IF bpmThrew THEN resp.bpm.error ELSE NoError,
      updates |-> IF trackThrew THEN updates
                  ELSE IF bpmThrew THEN afterTrack ELSE afterBpm,
      fetches |-> (IF fetchTrack THEN 1 ELSE 0) + (IF fetchBpm THEN 1 ELSE 0)]

RECURSIVE RetryLoop(_, _, _, _, _, _, _, _)
RetryLoop(needsMetadata, needsBpm, uri, script, retryCount, updates, lastError, waits) ==
  IF retryCount >= MAX_RETRIES_PER_TRACK
  THEN [uri |-> uri, success |-> FALSE, updates |-> updates,
        retryable |-> isRetryableError(lastError),
        attempts |-> retryCount, waits |-> waits]
  ELSE
    LET a == Attempt(needsMetadata, needsBpm, uri,
                     script[Minimum(retryCount + 1, Len(script))], updates)
        failedSoFar == retryCount + 1
    IN IF ~a.threw
       THEN [uri |-> uri, success |-> TRUE, updates |-> a.updates, retryable |-> FALSE,
             attempts |-> retryCount + 1, waits |-> waits]
       ELSE IF isRetryableError(a.error) /\ failedSoFar < MAX_RETRIES_PER_TRACK
       THEN RetryLoop(needsMetadata, needsBpm, uri, script, failedSoFar, a.updates, a.error,
                      Append(waits, getBackoffDelay(failedSoFar, BackoffBaseMs)))
       ELSE [uri |-> uri, success |-> FALSE, updates |-> a.updates,
             retryable |-> isRetryableError(a.error),
             attempts |-> failedSoFar, waits |-> waits]

TrackEffort(track, uri, script) ==
  RetryLoop(NeedsMetadata(track), NeedsBpm(track), uri, script, 0, NoUpdates, NoError, <<>>)

\* The effort with a failure thrown out of it in place of the failure value.
EffortSettles_Rethrows(track, uri, script) ==
  LET v == TrackEffort(track, uri, script)
  IN [status |-> IF v.success THEN "fulfilled" ELSE "rejected", value |-> v]

\* How the promise of one effort settles for Promise.allSettled, line 312:
\* every exit of the async function of lines 249-309 is a return.
EffortSettles(track, uri, script) ==
  [status |-> "fulfilled", value |-> TrackEffort(track, uri, script)]

\* ---- Batch results, lines 314-346
HasUpdates(updates) ==
  updates.name # Absent \/ updates.artists # Absent \/ updates.bpm # Absent

\* The merge taking every metadata field from the updates, fetched or not.
MergeUpdates_Whole(track, updates) ==
  [track EXCEPT !.name = updates.name,
                !.artists = updates.artists,
                !.bpm = updates.bpm]

\* { ...track, ...updates }, lines 322-325
MergeUpdates(track, updates) ==
  [track EXCEPT !.name = IF updates.name # Absent THEN updates.name ELSE @,
                !.artists = IF updates.artists # Absent THEN updates.artists ELSE @,
                !.bpm = IF updates.bpm # Absent THEN updates.bpm ELSE @]

ApplyResult_TerminalKept(acc, result) ==
  IF result.value.success
  THEN [acc EXCEPT
          !.updatedData = IF HasUpdates(result.value.updates)
                          THEN SetTrack(@, result.value.uri,
                                 MergeUpdates(TrackOf(acc.updatedData, result.value.uri),
                                              result.value.updates))
                          ELSE @,
          !.processedUris = @ \cup {result.value.uri},
          !.failedUris = @ \ {result.value.uri},
          !.consecutiveFailures = 0]
  ELSE [acc EXCEPT !.batchFailures = @ + 1,
                   !.failedUris = @ \cup {result.value.uri}]

\* A success leaving the count of consecutive failures as it is.
ApplyResult_NoReset(acc, result) ==
  LET v == result.value
  IN IF v.success
     THEN [acc EXCEPT
             !.updatedData = IF HasUpdates(v.updates)
                             THEN SetTrack(@, v.uri,
                                    MergeUpdates(TrackOf(acc.updatedData, v.uri), v.updates))
                             ELSE @,
             !.processedUris = @ \cup {v.uri},
             !.failedUris = @ \ {v.uri}]
     ELSE IF v.retryable
     THEN [acc EXCEPT !.batchFailures = @ + 1,
                      !.failedUris = @ \cup {v.uri}]
     ELSE [acc EXCEPT !.batchFailures = @ + 1,
                      !.processedUris = @ \cup {v.uri},
                      !.failedUris = @ \ {v.uri}]

\* A terminal failure marking the key processed and leaving it in the failed
\* set.
ApplyResult_FailedKept(acc, result) ==
  LET v == result.value
  IN IF v.success
     THEN [acc EXCEPT
             !.updatedData = IF HasUpdates(v.updates)
                             THEN SetTrack(@, v.uri,
                                    MergeUpdates(TrackOf(acc.updatedData, v.uri), v.updates))
                             ELSE @,
             !.processedUris = @ \cup {v.uri},
             !.failedUris = @ \ {v.uri},
             !.consecutiveFailures = 0]
     ELSE IF v.retryable
     THEN [acc EXCEPT !.batchFailures = @ + 1,
                      !.failedUris = @ \cup {v.uri}]
     ELSE [acc EXCEPT !.batchFailures = @ + 1,
                      !.processedUris = @ \cup {v.uri}]

ApplyResult(acc, result) ==
  IF result.status = "fulfilled"
  THEN LET v == result.value
       IN IF v.success
          THEN [acc EXCEPT
                  !.updatedData = IF HasUpdates(v.updates)
                                  THEN SetTrack(@, v.uri,
                                         MergeUpdates(TrackOf(acc.updatedData, v.uri), v.updates))
                                  ELSE @,
                  !.processedUris = @ \cup {v.uri},
                  !.failedUris = @ \ {v.uri},
                  !.consecutiveFailures = 0]
          ELSE IF v.retryable
          THEN [acc EXCEPT !.batchFailures = @ + 1,
                           !.failedUris = @ \cup {v.uri}]
          ELSE [acc EXCEPT !.batchFailures = @ + 1,
                           !.processedUris = @ \cup {v.uri},
                           !.failedUris = @ \ {v.uri}]
  ELSE [acc EXCEPT !.batchFailures = @ + 1,
                   !.consecutiveFailures = @ + 1]

RECURSIVE ApplyResults(_, _)
ApplyResults(results, acc) ==
  IF results = <<>> THEN acc
  ELSE ApplyResults(Tail(results), ApplyResult(acc, Head(results)))

\* The delay growing without its cap.
NextDelay_Uncapped(currentDelay, batchFailures) ==
  IF batchFailures > 0
  THEN (currentDelay * 3) \div 2
  ELSE BASE_DELAY_BETWEEN_BATCHES_MS * DelayScale

\* lines 349-356, in 1/32 ms
NextDelay(currentDelay, batchFailures) ==
  IF batchFailures > 0
  THEN Minimum((currentDelay * 3) \div 2, MaxBatchDelayMs * DelayScale)
  ELSE BASE_DELAY_BETWEEN_BATCHES_MS * DelayScale

\* ---- Checkpoints.  processedUris and failedUris are persisted as arrays
\* built from the sets (Array.from) and read back into sets (new Set): the
\* model keeps them as sets.  startedAt is written and never read.
Checkpoint(processedUris, failedUris, totalTracks) ==
  [migrationName |-> "addTrackMetadata",
   processedUris |-> processedUris,
   failedUris |-> failedUris,
   totalTracks |-> totalTracks]

IsResumable(progress) ==
  progress # NoProgress /\ progress.migrationName = "addTrackMetadata"

\* ---- addTrackMetadataMigration up to its first fetch, lines 135-245
BackfillBegin(currentData, storedData, progress, cache) ==
  LET targets == tracksNeedingWork(currentData)
      resume == IsResumable(progress)
      processed0 == IF resume THEN progress.processedUris ELSE {}
      failed0 == IF resume THEN progress.failedUris ELSE {}
      totalTracks == IF resume THEN progress.totalTracks ELSE Len(targets)
      remaining == remainingTracks(targets, processed0, failed0)
      cp == CachePass(remaining, cache,
                      [updatedData |-> currentData, processedUris |-> processed0,
                       failedUris |-> failed0, stillNeedWork |-> <<>>])
      resolvedFromCache == Len(remaining) - Len(cp.stillNeedWork)
      \* lines 228-233
      data1 == IF resolvedFromCache > 0 THEN cp.updatedData ELSE storedData
      progress1 == IF resolvedFromCache > 0
                   THEN Checkpoint(cp.processedUris, cp.failedUris, totalTracks)
                   ELSE progress
  IN IF targets = <<>>
     THEN \* lines 154-156
          [kind |-> "returned", updatedData |-> currentData, tagData |-> storedData,
           progressStore |-> progress, targets |-> targets,
           startProcessed |-> {}, startFailed |-> {},
           processedUris |-> {}, failedUris |-> {}, stillNeedWork |-> <<>>,
           totalTracks |-> 0]
     ELSE IF cp.stillNeedWork = <<>>
     THEN \* the loop of line 245 does not run; final save, lines 393-408
          [kind |-> "returned", updatedData |-> cp.updatedData, tagData |-> cp.updatedData,
           progressStore |-> NoProgress, targets |-> targets,
           startProcessed |-> processed0, startFailed |-> failed0,
           processedUris |-> cp.processedUris, failedUris |-> cp.failedUris,
           stillNeedWork |-> <<>>, totalTracks |-> totalTracks]
     ELSE [kind |-> "fetching", updatedData |-> cp.updatedData, tagData |-> data1,
           progressStore |-> progress1, targets |-> targets,
           startProcessed |-> processed0, startFailed |-> failed0,
           processedUris |-> cp.processedUris, failedUris |-> cp.failedUris,
           stillNeedWork |-> cp.stillNeedWork, totalTracks |-> totalTracks]

\* ---- runMigrations after the backfill, lines 461-480
\* The driver saving and notifying on every invocation.
ShouldPersist_Always(hasChanges, version) == TRUE

\* line 470: hasChanges || migrationState.version !== CURRENT_VERSION
ShouldPersist(hasChanges, version) == hasChanges \/ version # CURRENT_VERSION

DriverFinish(migrationState, hasChanges, store, cache) ==
  LET m3 == ~migrationState.migrations.removeTrackInfoCache
      state1 == IF m3
                THEN [migrationState EXCEPT !.migrations.removeTrackInfoCache = TRUE]
                ELSE migrationState
      changes == hasChanges \/ m3
      save == ShouldPersist(changes, state1.version)
  IN [migrationStore |-> IF save THEN [state1 EXCEPT !.version = CURRENT_VERSION] ELSE store,
      trackInfoCache |-> IF m3 THEN {} ELSE cache,
      notified |-> save,
      result |-> changes]

BackfillDone_NotMarked(migrationState) == migrationState

\* lines 448-449
BackfillDone(migrationState) ==
  [migrationState EXCEPT !.migrations.addTrackMetadata = TRUE]

\* The catch of the pause signal marking the backfill as done.
BackfillPaused_Marked(migrationState) ==
  [migrationState EXCEPT !.migrations.addTrackMetadata = TRUE]

\* lines 450-454: the pause signal is caught, the flag is left alone
BackfillPaused(migrationState) == migrationState

ShouldSave_EveryBatch(batchNumber) == batchNumber >= 0

\* The network pass without its periodic save.
ShouldSave_Never(batchNumber) == FALSE

\* lines 378-380
ShouldSave(batchNumber) ==
  batchNumber > 0 /\ batchNumber % SAVE_EVERY_N_BATCHES = 0

ShouldPause_Late(consecutiveFailures) ==
  consecutiveFailures > MAX_CONSECUTIVE_FAILURES

\* line 359
ShouldPause(consecutiveFailures) ==
  consecutiveFailures >= MAX_CONSECUTIVE_FAILURES

\* ---- What the observer records
Bool(b) == IF b THEN "true" ELSE "false"

NoSnapshot ==
  [processedUris |-> {}, failedUris |-> {}, consecutiveFailures |-> 0]

NoBatch == [results |-> <<>>, pattern |-> <<>>, before |-> NoSnapshot, after |-> NoSnapshot]

Terminal(results) ==
  {results[j].value.uri :
     j \in {k \in 1..Len(results) : ~results[k].value.success /\ ~results[k].value.retryable}}

HistStart ==
  [hist EXCEPT !.runs = @ + 1,
               !.prevEnded = hist.ended,
               !.prevEndProcessed = hist.endProcessed,
               !.prevEndFailed = hist.endFailed,
               !.loaded = progressStore,
               !.startProcessed = {},
               !.startFailed = {},
               !.work = {},
               !.fetched = {},
               !.batch = NoBatch,
               !.endProcessed = {},
               !.endFailed = {},
               !.notified = 0,
               !.terminal = {},
               !.terminalBefore = @ \cup hist.terminal,
               !.terminalSaved = @ \cup IF hist.ended \in {"paused", "complete"}
                                        THEN hist.terminal ELSE {}]

HistBegin(h, b) ==
  [h EXCEPT !.startProcessed = b.startProcessed,
            !.startFailed = b.startFailed,
            !.work = {b.stillNeedWork[i] : i \in 1..Len(b.stillNeedWork)}]

HistEnd(h, how, fin, processedUris, failedUris) ==
  [h EXCEPT !.ended = how,
            !.result = Bool(fin.result),
            !.notified = IF fin.notified THEN 1 ELSE 0,
            !.endProcessed = processedUris,
            !.endFailed = failedUris]

\* ---- runMigrations from the call to its first suspension, lines 412-459
\* The network pass issuing every effort that is left at once.
BatchOf_AllAtOnce(stillNeedWork, i) ==
  SubSeq(stillNeedWork, i + 1, Len(stillNeedWork))

BatchOf(stillNeedWork, i) ==
  SubSeq(stillNeedWork, i + 1, Minimum(i + BATCH_SIZE, Len(stillNeedWork)))

SeqToSet(s) == {s[i] : i \in 1..Len(s)}

\* The backfill handed the dataset as it was before the cleanup.
DataForBackfill_Uncleaned(currentData, updatedData) == currentData

\* lines 426, 434, 443-444: the backfill is handed updatedData, the result
\* of the migration before it
DataForBackfill(currentData, updatedData) == updatedData

\* line 419 with no dataset left to act on.
HasNoTracks_Never(currentData) == FALSE

\* line 419: !currentData.tracks || Object.keys(currentData.tracks).length === 0
HasNoTracks(currentData) == Len(currentData) = 0

RunMigrations ==
  /\ pc = "idle"
  /\ hist.runs < MaxRuns
  /\ IF HasNoTracks(tagData)
     THEN \* lines 419-422
          /\ hist' = [HistStart EXCEPT !.ended = "noop", !.result = "false"]
          /\ UNCHANGED <<tagData, migrationStore, progressStore, trackInfoCache, pc, run>>
     ELSE
       LET state0 == getMigrationState(migrationStore)
           m1 == ~state0.migrations.cleanupEmptyTracks
           \* lines 433-438
           data1 == IF m1 THEN cleanupEmptyTracksMigration(tagData) ELSE tagData
           cache1 == IF m1 THEN CacheAfterCleanup(tagData, trackInfoCache) ELSE trackInfoCache
           state1 == IF m1 THEN [state0 EXCEPT !.migrations.cleanupEmptyTracks = TRUE]
                     ELSE state0
       IN IF state1.migrations.addTrackMetadata
          THEN LET fin == DriverFinish(state1, m1, migrationStore, cache1)
               IN /\ tagData' = data1
                  /\ migrationStore' = fin.migrationStore
                  /\ trackInfoCache' = fin.trackInfoCache
                  /\ hist' = HistEnd(HistStart, "complete", fin, {}, {})
                  /\ UNCHANGED <<progressStore, pc, run>>
          ELSE LET b == BackfillBegin(DataForBackfill(tagData, data1), data1,
                                      progressStore, cache1)
               IN IF b.kind = "returned"
                  THEN LET fin == DriverFinish(BackfillDone(state1), TRUE, migrationStore, cache1)
                       IN /\ tagData' = b.tagData
                          /\ progressStore' = b.progressStore
                          /\ migrationStore' = fin.migrationStore
                          /\ trackInfoCache' = fin.trackInfoCache
                          /\ hist' = HistEnd(HistBegin(HistStart, b), "complete", fin,
                                             b.processedUris, b.failedUris)
                          /\ UNCHANGED <<pc, run>>
                  ELSE /\ tagData' = b.tagData
                       /\ progressStore' = b.progressStore
                       /\ trackInfoCache' = cache1
                       /\ pc' = "fetching"
                       /\ run' = [migrationState |-> state1,
                                  hasChanges |-> m1,
                                  updatedData |-> b.updatedData,
                                  processedUris |-> b.processedUris,
                                  failedUris |-> b.failedUris,
                                  totalTracks |-> b.totalTracks,
                                  stillNeedWork |-> b.stillNeedWork,
                                  i |-> 0,
                                  consecutiveFailures |-> 0,
                                  currentDelay |-> BASE_DELAY_BETWEEN_BATCHES_MS * DelayScale]
                       /\ hist' = [HistBegin(HistStart, b) EXCEPT
                                     !.ended = "running",
                                     !.fetched = SeqToSet(BatchOf(b.stillNeedWork, 0))]
                       /\ UNCHANGED migrationStore
  /\ UNCHANGED rlVars

\* ---- A batch has settled: lines 312-408 and the rest of runMigrations.
\* pattern gives, per position of the batch, what the fetchers answer.
SettleBatch(pattern) ==
  /\ pc = "fetching"
  /\ LET batch == BatchOf(run.stillNeedWork, run.i)
         results == [j \in 1..Len(batch) |->
                       EffortSettles(TrackOf(run.updatedData, batch[j]),
                                     batch[j], pattern[j])]
         acc == ApplyResults(results,
                  [updatedData |-> run.updatedData,
                   processedUris |-> run.processedUris,
                   failedUris |-> run.failedUris,
                   consecutiveFailures |-> run.consecutiveFailures,
                   batchFailures |-> 0])
         \* lines 349-356
         consecutiveFailures == IF acc.batchFailures > 0
                                THEN acc.consecutiveFailures + acc.batchFailures
                                ELSE acc.consecutiveFailures
         currentDelay == NextDelay(run.currentDelay, acc.batchFailures)
         checkpoint == Checkpoint(acc.processedUris, acc.failedUris, run.totalTracks)
         batchNumber == run.i \div BATCH_SIZE
         settled == [hist EXCEPT
                       !.terminal = @ \cup Terminal(results),
                       !.batch =
                         [results |-> results,
                          pattern |-> SubSeq(pattern, 1, Len(batch)),
                          before |-> [processedUris |-> run.processedUris,
                                      failedUris |-> run.failedUris,
                                      consecutiveFailures |-> run.consecutiveFailures],
                          after |-> [processedUris |-> acc.processedUris,
                                     failedUris |-> acc.failedUris,
                                     consecutiveFailures |-> consecutiveFailures]]]
     IN IF ShouldPause(consecutiveFailures)
        THEN \* lines 359-372, caught at lines 450-454
             LET fin == DriverFinish(BackfillPaused(run.migrationState), run.hasChanges,
                                     migrationStore, trackInfoCache)
             IN /\ progressStore' = checkpoint
                /\ tagData' = acc.updatedData
                /\ migrationStore' = fin.migrationStore
                /\ trackInfoCache' = fin.trackInfoCache
                /\ pc' = "idle"
                /\ run' = NoRun
                /\ hist' = HistEnd(settled, "paused", fin,
                                   acc.processedUris, acc.failedUris)
        ELSE IF run.i + BATCH_SIZE < Len(run.stillNeedWork)
        THEN \* lines 378-390: periodic save, then the delay between batches
             /\ IF ShouldSave(batchNumber)
                THEN progressStore' = checkpoint /\ tagData' = acc.updatedData
                ELSE UNCHANGED <<progressStore, tagData>>
             /\ pc' = "throttle"
             /\ run' = [run EXCEPT !.updatedData = acc.updatedData,
                                   !.processedUris = acc.processedUris,
                                   !.failedUris = acc.failedUris,
                                   !.consecutiveFailures = consecutiveFailures,
                                   !.currentDelay = currentDelay]
             /\ hist' = settled
             /\ UNCHANGED <<migrationStore, trackInfoCache>>
        ELSE \* last batch: a periodic save of lines 378-385 is overwritten in
             \* the same synchronous stretch by the final save, lines 393-408;
             \* then lines 448-480
             LET fin == DriverFinish(BackfillDone(run.migrationState), TRUE,
                                     migrationStore, trackInfoCache)
             IN /\ tagData' = acc.updatedData
                /\ progressStore' = NoProgress
                /\ migrationStore' = fin.migrationStore
                /\ trackInfoCache' = fin.trackInfoCache
                /\ pc' = "idle"
                /\ run' = NoRun
                /\ hist' = HistEnd(settled, "complete", fin,
                                   acc.processedUris, acc.failedUris)
  /\ UNCHANGED rlVars

\* The loop step without the increment of line 245: the same batch again.
NextBatch_SameBatch ==
  /\ pc = "throttle"
  /\ pc' = "fetching"
  /\ UNCHANGED <<run, hist>>
  /\ UNCHANGED <<tagData, migrationStore, progressStore, trackInfoCache>>
  /\ UNCHANGED rlVars

\* ---- The delay of line 389 is over: the next batch starts, lines 245-310
NextBatch ==
  /\ pc = "throttle"
  /\ pc' = "fetching"
  /\ run' = [run EXCEPT !.i = @ + BATCH_SIZE]
  /\ hist' = [hist EXCEPT !.fetched =
                @ \cup SeqToSet(BatchOf(run.stillNeedWork, run.i + BATCH_SIZE))]
  /\ UNCHANGED <<tagData, migrationStore, progressStore, trackInfoCache>>
  /\ UNCHANGED rlVars

\* ---- The application is closed while the driver is suspended: its locals
\* are gone, the Local Store and the stored dataset stay.
Interrupt ==
  /\ pc \in {"fetching", "throttle"}
  /\ pc' = "idle"
  /\ run' = NoRun
  /\ hist' = [hist EXCEPT !.ended = "crashed", !.result = "none",
                          !.startProcessed = {}, !.startFailed = {},
                          !.work = {}, !.fetched = {}, !.batch = NoBatch]
  /\ UNCHANGED <<tagData, migrationStore, progressStore, trackInfoCache>>
  /\ UNCHANGED rlVars

\* ---- runBackfill of useMetadataBackfill.ts:34-114, the other writer of
\* the stored dataset, run to its end between two invocations of the driver
\* with every fetch answered.
NeedsBackfill(uri, track) ==
  /\ ~IsLocalUri(uri)
  /\ track.name = Absent \/ track.artists = Absent \/ track.bpm = NullBpm

Backfilled(uri, track) ==
  IF ~NeedsBackfill(uri, track) THEN track
  ELSE [track EXCEPT
          !.name = IF track.name = Absent \/ track.artists = Absent
                   THEN FetchedName ELSE @,
          !.artists = IF track.name = Absent \/ track.artists = Absent
                      THEN FetchedArtists ELSE @,
          !.bpm = IF @ = NullBpm THEN FetchedBpm ELSE @]

runBackfill ==
  /\ pc = "idle"
  /\ {i \in 1..Len(tagData) : NeedsBackfill(tagData[i].uri, tagData[i].track)} # {}
  /\ tagData' = [i \in 1..Len(tagData) |->
                   [uri |-> tagData[i].uri,
                    track |-> Backfilled(tagData[i].uri, tagData[i].track)]]
  /\ hist' = [hist EXCEPT !.ended = "backfilled"]
  /\ UNCHANGED <<migrationStore, progressStore, trackInfoCache, pc, run>>
  /\ UNCHANGED rlVars

\* ---- What the fetchers answer for one record, attempt by attempt
Both(r) == [track |-> r, bpm |-> r]

ScriptOk == <<Both(Value)>>
ScriptLateOk == <<Both(Throws(Err429)), Both(Throws(ErrNetwork)), Both(Value)>>
ScriptRetryable == <<Both(Throws(ErrTimeout))>>
ScriptTerminal == <<Both(Throws(ErrNotFound))>>
\* the coordinator rejects every call: its circuit is open
ScriptCircuitOpen == <<Both(Throws(ErrCircuitOpen))>>
ScriptPartial == <<[track |-> Value, bpm |-> Throws(ErrNotFound)]>>

AllOf(script) == [j \in 1..BATCH_SIZE |-> script]

Patterns ==
  {AllOf(ScriptOk), AllOf(ScriptRetryable), AllOf(ScriptTerminal),
   AllOf(ScriptCircuitOpen),
   <<ScriptOk, ScriptLateOk, ScriptTerminal, ScriptRetryable, ScriptPartial>>}

\* ---- The dataset at the first launch
Rated(name, artists, bpm) ==
  [name |-> name, artists |-> artists, bpm |-> bpm,
   rating |-> 4, energy |-> 0, tags |-> <<>>]

NetworkTrack(n) ==
  [uri |-> TrackUri(<<"n", n>>),
   track |-> IF n % 3 = 1 THEN Rated(Absent, Absent, NullBpm)
             ELSE IF n % 3 = 2 THEN Rated("name", "artists", NullBpm)
             ELSE Rated(Absent, Absent, "120")]

InitialData ==
  << [uri |-> TrackUri(<<"empty", 0>>),
      track |-> [name |-> Absent, artists |-> Absent, bpm |-> NullBpm,
                 rating |-> 0, energy |-> 0, tags |-> <<>>]],
     [uri |-> LocalUri(<<"file", 0>>), track |-> Rated(Absent, Absent, NullBpm)],
     [uri |-> TrackUri(<<"complete", 0>>), track |-> Rated("name", "artists", "120")],
     [uri |-> TrackUri(<<"cached", 0>>), track |-> Rated(Absent, Absent, "120")] >>
  \o [n \in 1..NumTracks |-> NetworkTrack(n)]
  \o << [uri |-> TrackUri(<<"titled", 0>>), track |-> Rated("name", Absent, "120")] >>

CachedUris == {TrackUri(<<"empty", 0>>), TrackUri(<<"cached", 0>>), TrackUri(<<"n", 1>>)}

\* A user with nothing tagged yet.
EmptyData == <<>>

\* The Local Store of a user whose three migrations ran under an earlier
\* version of the extension.
EarlierVersion == "0.9.0"

UpgradedState ==
  [version |-> EarlierVersion,
   migrations |-> [cleanupEmptyTracks |-> TRUE,
                   addTrackMetadata |-> TRUE,
                   removeTrackInfoCache |-> TRUE]]

InitMig ==
  /\ tagData \in {InitialData, EmptyData}
  /\ migrationStore \in {NoState, UpgradedState}
  /\ progressStore = NoProgress
  /\ trackInfoCache \in {{}, CachedUris}
  /\ pc = "idle"
  /\ run = NoRun
  /\ hist = [runs |-> 0, ended |-> "none", prevEnded |-> "none", result |-> "none",
             notified |-> 0,
             loaded |-> NoProgress, startProcessed |-> {}, startFailed |-> {},
             work |-> {}, fetched |-> {}, batch |-> NoBatch,
             endProcessed |-> {}, endFailed |-> {},
             prevEndProcessed |-> {}, prevEndFailed |-> {},
             terminal |-> {}, terminalBefore |-> {}, terminalSaved |-> {}]

\* The batches of an invocation in which fetches can fail, by batch number.
FailingBatches == {0, 1}

PatternsAt(batchNumber) ==
  IF batchNumber \in FailingBatches THEN Patterns ELSE {AllOf(ScriptOk)}

NextMig ==
  \/ RunMigrations
  \/ \E pattern \in PatternsAt(run.i \div BATCH_SIZE) : SettleBatch(pattern)
  \/ NextBatch
  \/ Interrupt
  \/ runBackfill

----------------------------------------------------------------------------
(* The two specifications *)

\* The coordinator on its own: nothing is migrated.
InitCoordinator ==
  /\ InitRL
  /\ InitMig
  /\ tagData = InitialData
  /\ migrationStore = NoState
  /\ trackInfoCache = {}

SpecRL == InitCoordinator /\ [][NextRL]_vars

\* The migration driver on its own: no request goes through the coordinator.
InitDriver == InitMig /\ InitRL

SpecMig == InitDriver /\ [][NextMig]_vars

----------------------------------------------------------------------------
(* The coordinator under fair passage of time.  The host's event loop runs *)
(* every timer that is due: the clock reaches the next timer (Advance), a  *)
(* call whose delay is over re-enters execute (Retry), and the timeout of  *)
(* a request that is still pending rejects it (Timeout).  The clock moves  *)
(* from timer to timer; callers arrive at any of these instants.           *)

\* The clock moves on to the earliest timer that has not fired.
Advance ==
  /\ Deadlines # {}
  /\ \A t \in Deadlines : t > now
  /\ now' = CHOOSE t \in Deadlines : \A u \in Deadlines : t <= u
  /\ UNCHANGED <<ticks, requestHistory, pendingRequests, circuitOpen, circuitOpenedAt,
                 consecutiveErrors, promises, calls, observer, migVars>>

\* The call that re-enters execute without going through it.
RetryOf_Dropped(c) ==
  /\ c \in 1..Len(calls)
  /\ calls[c].st = "delay"
  /\ now >= calls[c].wakeAt
  /\ calls' = [calls EXCEPT ![c] = [@ EXCEPT !.st = "dropped"]]
  /\ UNCHANGED <<now, ticks, requestHistory, pendingRequests, circuitOpen,
                 circuitOpenedAt, consecutiveErrors, promises, observer, migVars>>

RetryOf(c) == c \in 1..Len(calls) /\ Retry(c)

TimeoutOf(p) == p \in 1..Len(promises) /\ Timeout(p)

InitTimed == InitCoordinator

NextTimed ==
  \/ \E k \in Keys : Execute(k)
  \/ \E c \in 1..MaxCalls : RetryOf(c)
  \/ \E p \in 1..Len(promises) : Succeed(p)
  \/ \E p \in 1..Len(promises) : Fail(p)
  \/ \E p \in 1..MaxCalls : TimeoutOf(p)
  \/ Advance

TimersFire ==
  /\ WF_vars(Advance)
  /\ \A c \in 1..MaxCalls : WF_vars(RetryOf(c))
  /\ \A p \in 1..MaxCalls : WF_vars(TimeoutOf(p))

SpecTimed == InitTimed /\ [][NextTimed]_vars /\ TimersFire

----------------------------------------------------------------------------
(* Properties of the Request Coordinator *)

PromiseIds == 1..Len(promises)
CallIds == 1..Len(calls)

\* C1 (as claimed): a call for key k issued while an earlier operation for k
\* is in flight (started less than requestTimeoutMs ago, not settled) attaches
\* to it, so two operations for one key are never in flight together unless
\* the later one was started when the earlier one was already stale.
C1_OneOperationPerWindow ==
  \A p, q \in PromiseIds :
    (/\ p < q
     /\ promises[p].key = promises[q].key
     /\ promises[p].state = "pending"
     /\ promises[q].state = "pending")
    => promises[q].startedAt - promises[p].startedAt >= requestTimeoutMs

\* Keys of the operations admitted (started) in the trailing window w.
AdmittedKeys(w) ==
  {promises[p].key : p \in {q \in PromiseIds : now - promises[q].startedAt < w}}

\* C2 (as claimed): with callers on distinct keys, the operations admitted
\* in the trailing second never exceed maxRequestsPerSecond and those of
\* the trailing minute never exceed maxRequestsPerMinute.
C2_AdmissionsWithinLimits ==
  /\ Cardinality(AdmittedKeys(SecondMs)) <= maxRequestsPerSecond
  /\ Cardinality(AdmittedKeys(MinuteMs)) <= maxRequestsPerMinute

\* C3: an execute entry made after circuitBreakerThreshold consecutive
\* failed completions (no success, no reset in between) and before the
\* cool-down has elapsed is rejected with the circuit-open error and starts
\* no operation.
C3_TrippedBreakerRejects ==
  \A c \in CallIds :
    (calls[c].entry.streak >= circuitBreakerThreshold /\ calls[c].entry.cooling)
    => /\ calls[c].st = "circuitOpen"
       /\ calls[c].promise = 0
       /\ calls[c].retryAfterMs > 0

C3_Witness ==
  \E c \in CallIds :
    /\ calls[c].entry.streak >= circuitBreakerThreshold
    /\ calls[c].entry.cooling
    /\ calls[c].st = "circuitOpen"
    /\ \E p \in PromiseIds : promises[p].key # calls[c].key

\* The calls that entered execute in this step.
Entered(c) == c > Len(calls) \/ calls'[c] # calls[c]

\* C4: an execute entry that finds the circuit open with the cool-down
\* elapsed is not rejected, and closes the circuit and zeroes
\* consecutiveErrors; and the circuit closes in no other kind of step
\* (the passage of time alone never closes it).
C4_LazyReset ==
  [][ /\ (/\ calls' # calls
          /\ circuitOpen
          /\ now - circuitOpenedAt >= circuitBreakerResetMs)
         => /\ ~circuitOpen'
            /\ consecutiveErrors' = 0
            /\ \A c \in 1..Len(calls') : Entered(c) => calls'[c].st # "circuitOpen"
      /\ (circuitOpen /\ ~circuitOpen')
         => /\ calls' # calls
            /\ now - circuitOpenedAt >= circuitBreakerResetMs
    ]_vars

C4_Witness ==
  \E c \in CallIds :
    /\ calls[c].entry.open
    /\ calls[c].entry.elapsed
    /\ calls[c].st = "invoked"
    /\ ~circuitOpen
    /\ consecutiveErrors = 0

----------------------------------------------------------------------------
(* Properties of the migration driver *)

InFlight == pc \in {"fetching", "throttle"}

\* the step is the call of runMigrations
Invoked == hist'.runs = hist.runs + 1

\* the step is the settling of a batch
Settled == pc = "fetching" /\ hist'.batch.results # <<>>

TargetKeys(data, store) ==
  {data[i].uri : i \in
     {j \in 1..Len(data) :
        /\ ~IsLocalUri(data[j].uri)
        /\ (data[j].track.name = Absent \/ data[j].track.artists = Absent
            \/ data[j].track.bpm = NullBpm)
        /\ (store.migrations.cleanupEmptyTracks \/ ~isTrackEmpty(data[j].track))}}

RemainingKeys(data, store, checkpoint) ==
  {uri \in TargetKeys(data, store) :
     uri \notin checkpoint.processedUris \/ uri \in checkpoint.failedUris}

\* C6: an invocation that finds a checkpoint works on exactly the target keys
\* that are not in the checkpoint's processed set or are in its failed set;
\* it fetches only those, none of the processed ones, and all of them when it
\* reaches the end of its list.
C6_ResumesFromCheckpoint ==
  [][ /\ (Invoked /\ IsResumable(progressStore)
                  /\ ~migrationStore.migrations.addTrackMetadata)
           => hist'.work = RemainingKeys(tagData, migrationStore, progressStore)
      /\ IsResumable(hist'.loaded)
           => /\ hist'.fetched \subseteq hist'.work
              /\ hist'.fetched \cap hist'.loaded.processedUris = {}
              /\ (hist'.ended = "complete" => hist'.fetched = hist'.work) ]_vars

C6_Witness ==
  /\ hist.runs = 2
  /\ hist.prevEnded = "paused"
  /\ IsResumable(hist.loaded)
  /\ hist.loaded.processedUris # {}
  /\ hist.loaded.failedUris # {}
  /\ hist.ended = "complete"
  /\ hist.loaded.failedUris \subseteq hist.fetched
  /\ hist.fetched \ hist.loaded.failedUris # {}

\* C7: the keys that were in failed and not in processed when an invocation
\* returned, by the pause or at the end of its list, are in the work list of
\* the next invocation.
C7_FailedKeysRetried ==
  (hist.runs >= 2 /\ hist.prevEnded \in {"paused", "complete"} /\ hist.ended # "crashed")
    => (hist.prevEndFailed \ hist.prevEndProcessed) \subseteq hist.work

\* What a settled batch makes of the working dataset: the fetched fields of
\* the successful records are merged, nothing else changes.
MergedTrack(track, updates) ==
  [name |-> IF updates.name # Absent THEN updates.name ELSE track.name,
   artists |-> IF updates.artists # Absent THEN updates.artists ELSE track.artists,
   bpm |-> IF updates.bpm # Absent THEN updates.bpm ELSE track.bpm,
   rating |-> track.rating, energy |-> track.energy, tags |-> track.tags]

MergedData(data, results) ==
  [i \in 1..Len(data) |->
     IF \E j \in 1..Len(results) :
          results[j].value.uri = data[i].uri /\ results[j].value.success
     THEN [uri |-> data[i].uri,
           track |-> MergedTrack(data[i].track,
                       results[CHOOSE j \in 1..Len(results) :
                                 results[j].value.uri = data[i].uri].value.updates)]
     ELSE data[i]]

WorkingData == IF pc = "idle" THEN tagData ELSE run.updatedData

BatchHandled ==
  /\ WorkingData' = MergedData(run.updatedData, hist'.batch.results)
  /\ \A j \in 1..Len(hist'.batch.results) :
       LET v == hist'.batch.results[j].value
           after == hist'.batch.after
       IN IF v.success \/ ~v.retryable
          THEN v.uri \in after.processedUris /\ v.uri \notin after.failedUris
          ELSE v.uri \in after.failedUris /\ v.uri \notin after.processedUris

C9_PausePersistsAndResumes ==
  [][ /\ (Settled /\ hist'.batch.after.consecutiveFailures >= MAX_CONSECUTIVE_FAILURES)
           => /\ hist'.ended = "paused"
              /\ pc' = "idle"
              /\ IsResumable(progressStore')
              /\ progressStore'.processedUris = hist'.batch.after.processedUris
              /\ progressStore'.failedUris = hist'.batch.after.failedUris
              /\ tagData' = MergedData(run.updatedData, hist'.batch.results)
              /\ ~migrationStore'.migrations.addTrackMetadata
      /\ (Invoked /\ hist.ended = "paused")
           => /\ IsResumable(progressStore)
              /\ progressStore.processedUris = hist.endProcessed
              /\ progressStore.failedUris = hist.endFailed
              /\ hist'.loaded = progressStore
              /\ hist'.startProcessed = hist.endProcessed
              /\ hist'.startFailed = hist.endFailed ]_vars

C9_Witness ==
  /\ hist.runs = 2
  /\ hist.prevEnded = "paused"
  /\ hist.startFailed # {}
  /\ hist.startFailed = hist.prevEndFailed
  /\ hist.startProcessed = hist.prevEndProcessed
  /\ hist.fetched # {}

\* The keys settled in this invocation whose outcome an interruption would
\* lose: marked in memory, not in the stored checkpoint.
Unsaved ==
  IF InFlight
  THEN (run.processedUris \ progressStore.processedUris)
         \cup (run.failedUris \ progressStore.failedUris)
  ELSE {}

SettledBatches ==
  IF pc = "throttle" THEN run.i \div BATCH_SIZE + 1
  ELSE IF pc = "fetching" THEN run.i \div BATCH_SIZE
  ELSE 0

UnsavedBatches(settled) ==
  IF settled <= SAVE_EVERY_N_BATCHES THEN settled
  ELSE (settled - 1) % SAVE_EVERY_N_BATCHES

UnsavedRange ==
  SeqToSet(SubSeq(run.stillNeedWork,
                  (SettledBatches - UnsavedBatches(SettledBatches)) * BATCH_SIZE + 1,
                  Minimum(SettledBatches * BATCH_SIZE, Len(run.stillNeedWork))))

----------------------------------------------------------------------------
(* C11: a pause of the backfill is not a fault of the invocation.  The     *)
(* step in which the backfill pauses ends the invocation normally with the *)
(* addTrackMetadata flag still not persisted true, while the migrations    *)
(* around it (cleanupEmptyTracks before, removeTrackInfoCache after) have  *)
(* run in that same invocation and their flags are persisted true; the     *)
(* invocation that follows a pause attempts the backfill again (it fetches *)
(* for records still missing metadata, or, when every such record is in    *)
(* the stored checkpoint already, the backfill returns normally at once);  *)
(* and the addTrackMetadata flag                                           *)
(* turns true in the store only in a step in which the backfill returned   *)
(* normally.                                                               *)

Paused == Settled /\ hist'.ended = "paused"

\* C11: a pause ends the invocation normally, flag not set, the other
\* migrations done and persisted, the backfill attempted again next time.
C11_PauseIsNotAFault ==
  [][ /\ Paused =>
          /\ pc' = "idle"
          /\ hist'.result \in {"true", "false"}
          /\ ~migrationStore'.migrations.addTrackMetadata
          /\ migrationStore'.migrations.cleanupEmptyTracks
          /\ migrationStore'.migrations.removeTrackInfoCache
          /\ migrationStore'.version = CURRENT_VERSION
          /\ trackInfoCache' = {}
      /\ (Invoked /\ hist.ended = "paused") =>
          \/ /\ pc' = "fetching"
             /\ hist'.work # {}
             /\ hist'.fetched # {}
          \/ /\ hist'.ended = "complete"
             /\ hist'.work = {}
             /\ ~migrationStore.migrations.addTrackMetadata
             /\ migrationStore'.migrations.addTrackMetadata
      /\ (~migrationStore.migrations.addTrackMetadata
            /\ migrationStore'.migrations.addTrackMetadata) =>
          /\ hist'.ended = "complete"
    ]_vars

\* A second invocation, after a pause, is fetching again.
C11_Witness ==
  /\ hist.runs = 2
  /\ hist.prevEnded = "paused"
  /\ pc = "fetching"
  /\ migrationStore.migrations.removeTrackInfoCache
  /\ ~migrationStore.migrations.addTrackMetadata

----------------------------------------------------------------------------
(* C12: completion flags are monotone and respected.  A flag that is       *)
(* persisted true is persisted true after every later step (never false,   *)
(* never absent), and an invocation that finds a flag persisted true skips *)
(* that migration: with cleanupEmptyTracks true no record is removed, with *)
(* addTrackMetadata true nothing is fetched and neither the dataset nor    *)
(* the checkpoint is written, with removeTrackInfoCache true the cache is  *)
(* left as it is.                                                          *)

Flags == {"cleanupEmptyTracks", "addTrackMetadata", "removeTrackInfoCache"}

\* C12: a persisted true flag stays true, and its migration is skipped.
C12_FlagsMonotoneAndRespected ==
  [][ /\ \A f \in Flags :
            migrationStore.migrations[f] =>
              /\ migrationStore' # NoState
              /\ migrationStore'.migrations[f]
      /\ (Invoked /\ migrationStore.migrations.cleanupEmptyTracks) =>
            UrisOf(tagData') = UrisOf(tagData)
      /\ (Invoked /\ migrationStore.migrations.addTrackMetadata) =>
            /\ pc' = "idle"
            /\ hist'.work = {}
            /\ hist'.fetched = {}
            /\ tagData' = tagData
            /\ progressStore' = progressStore
      /\ (Invoked /\ migrationStore.migrations.removeTrackInfoCache) =>
            trackInfoCache' = trackInfoCache
    ]_vars

\* An invocation has run on a store with every flag true: the empty record
\* is still there, records still lack metadata, the cache is still there.
C12_Witness ==
  /\ hist.runs = 1
  /\ hist.ended = "complete"
  /\ migrationStore.migrations.cleanupEmptyTracks
  /\ TrackUri(<<"empty", 0>>) \in UriSet(tagData)
  /\ tracksNeedingWork(tagData) # <<>>
  /\ trackInfoCache = CachedUris
  /\ hist.fetched = {}

----------------------------------------------------------------------------
(* C13: runMigrations on a dataset with no records is a no-op.  It returns *)
(* false, runs no migration (no flag changes, nothing is removed from the  *)
(* cache), issues no fetch, writes neither the dataset nor MigrationState  *)
(* nor MigrationProgress, and emits no notification.                       *)

C13_EmptyDatasetIsNoOp ==
  [][ (Invoked /\ Len(tagData) = 0) =>
        /\ hist'.result = "false"
        /\ hist'.notified = 0
        /\ hist'.work = {}
        /\ hist'.fetched = {}
        /\ pc' = "idle"
        /\ tagData' = tagData
        /\ migrationStore' = migrationStore
        /\ progressStore' = progressStore
        /\ trackInfoCache' = trackInfoCache
    ]_vars

\* An invocation has returned on an empty dataset with nothing stored and
\* a cache that migration 3 would have removed.
C13_Witness ==
  /\ hist.runs >= 1
  /\ Len(tagData) = 0
  /\ hist.result = "false"
  /\ migrationStore = NoState
  /\ trackInfoCache = CachedUris

----------------------------------------------------------------------------
(* C14: at the end of an invocation on a non-empty dataset, MigrationState *)
(* is persisted with the running version, and exactly one notification is  *)
(* emitted, if and only if a flag flipped in this invocation or the stored *)
(* version differed from the running one; otherwise nothing is persisted   *)
(* and nothing is emitted.  A flag flips when its migration ran: the two   *)
(* structural ones run whenever their flag was not stored true, the        *)
(* backfill flips its flag when it was not stored true and completed.      *)

Returned == (Invoked \/ Settled) /\ hist'.ended \in {"complete", "paused"}

Stored == getMigrationState(migrationStore)

FlippedFlags ==
  {f \in Flags :
     /\ ~Stored.migrations[f]
     /\ f = "addTrackMetadata" => hist'.ended = "complete"}

\* C14: state persisted and one notification emitted iff a flag flipped or
\* the stored version differed.
C14_PersistAndNotifyIffChanged ==
  [][ Returned =>
        IF FlippedFlags # {} \/ Stored.version # CURRENT_VERSION
        THEN /\ migrationStore'.version = CURRENT_VERSION
             /\ \A f \in Flags :
                   migrationStore'.migrations[f] =
                     (Stored.migrations[f] \/ f \in FlippedFlags)
             /\ hist'.notified = 1
        ELSE /\ migrationStore' = migrationStore
             /\ hist'.notified = 0
    ]_vars

\* An invocation on a store of an earlier version with every flag true has
\* returned: nothing ran, the version was brought up and one notification
\* was emitted.
C14_Witness ==
  /\ hist.runs = 1
  /\ hist.ended = "complete"
  /\ hist.result = "false"
  /\ hist.notified = 1
  /\ migrationStore = [UpgradedState EXCEPT !.version = CURRENT_VERSION]

\* A second pause in a row: no flag flipped, nothing persisted or emitted.
C14_WitnessUnchanged ==
  /\ hist.runs = 2
  /\ hist.prevEnded = "paused"
  /\ hist.ended = "paused"
  /\ hist.notified = 0

----------------------------------------------------------------------------
(* C15: a call that execute made wait for the rate limit is never dropped. *)
(* As stated: once its wait is over it re-enters execute and, under fair   *)
(* passage of time, eventually invokes its operation or attaches to the    *)
(* in-flight call of its key.                                              *)

Waiting(c) == c \in 1..Len(calls) /\ calls[c].st = "delay"

Served(c) == c \in 1..Len(calls) /\ calls[c].st \in {"invoked", "attached"}

Rejected(c) == c \in 1..Len(calls) /\ calls[c].st = "circuitOpen"

\* C15 as stated: a waiting call eventually invokes or attaches.
C15_WaitingCallIsServed ==
  \A c \in 1..MaxCalls : Waiting(c) ~> Served(c)

(* C15, as the code has it: the re-entry goes through the whole of execute, *)
(* circuit check included.  A waiting call eventually invokes its          *)
(* operation, attaches to the in-flight call of its key, or is rejected    *)
(* with the circuit-open error because the circuit opened while it waited. *)
C15_WaitingCallIsServedOrRejected ==
  \A c \in 1..MaxCalls : Waiting(c) ~> (Served(c) \/ Rejected(c))

\* A call that waited has re-entered execute and was rejected by the circuit
\* that opened in the meantime.
C15_Witness ==
  \E c \in 1..Len(calls) :
    /\ calls[c].tries >= 2
    /\ calls[c].st = "circuitOpen"

\* A call that waited has re-entered execute and invoked its operation.
C15_WitnessServed ==
  \E c \in 1..Len(calls) :
    /\ calls[c].tries >= 2
    /\ calls[c].st = "invoked"

----------------------------------------------------------------------------
(* C16: when the operation of a call fails, the callers of that promise    *)
(* receive exactly the error the operation raised; one failure sample is   *)
(* appended to the history, consecutiveErrors grows by one, the pending    *)
(* entry of the key is removed, and the circuit is opened with openedAt    *)
(* stamped at the time of the failure if and only if the count has reached *)
(* circuitBreakerThreshold.  A rejection that comes before the timeout of  *)
(* the request has run out is a failure of the operation.                  *)

Rejects(p) == promises[p].state = "pending" /\ promises'[p].state = "rejected"

FailureHandled(p) ==
  /\ requestHistory' = Append(requestHistory, [timestamp |-> now, success |-> FALSE])
  /\ consecutiveErrors' = consecutiveErrors + 1
  /\ pendingRequests'[promises[p].key] = NoPending
  /\ \A k \in Keys \ {promises[p].key} : pendingRequests'[k] = pendingRequests[k]
  /\ IF consecutiveErrors' >= circuitBreakerThreshold
     THEN circuitOpen' /\ circuitOpenedAt' = now
     ELSE circuitOpen' = circuitOpen /\ circuitOpenedAt' = circuitOpenedAt

\* C16: a failure of the operation reaches the caller unchanged and is
\* recorded.
C16_OperationFailure ==
  [][ \A p \in 1..Len(promises) :
        (Rejects(p) /\ now - promises[p].startedAt < requestTimeoutMs) =>
          /\ promises'[p].result = OpError
          /\ FailureHandled(p)
          /\ \A q \in 1..Len(promises) \ {p} : promises'[q] = promises[q]
    ]_vars

\* An operation has failed before its timeout and that failure opened the
\* circuit; another one failed earlier without opening it.
C16_Witness ==
  \E p, q \in 1..Len(promises) :
    /\ p # q
    /\ promises[p].result = OpError
    /\ promises[q].result = OpError
    /\ Len(requestHistory) >= 2
    /\ pendingRequests[promises[p].key] = NoPending
    /\ circuitOpen
    /\ circuitOpenedAt = now
    /\ now < requestTimeoutMs
    /\ consecutiveErrors = circuitBreakerThreshold

----------------------------------------------------------------------------
(* C17: an operation that has not settled within requestTimeoutMs makes    *)
(* the call fail with the timeout error.  No request stays pending beyond  *)
(* requestTimeoutMs; a rejection with the timeout error happens only once  *)
(* requestTimeoutMs has run out, and it is handled as a failure: a failure *)
(* sample, consecutiveErrors plus one, the circuit opened at the           *)
(* threshold, and the pending entry of the key removed, so that the next   *)
(* call with that key finds no live entry and starts a new operation.      *)

C17_NonePendingBeyondTimeout ==
  \A p \in 1..Len(promises) :
    promises[p].state = "pending" => now - promises[p].startedAt <= requestTimeoutMs

\* C17: a request pending for requestTimeoutMs fails with the timeout
\* error, which is handled as a failure.
C17_TimeoutIsAFailure ==
  [][ /\ C17_NonePendingBeyondTimeout'
      /\ \A p \in 1..Len(promises) :
            /\ (Rejects(p) /\ promises'[p].result = TimeoutError) =>
                  /\ now - promises[p].startedAt >= requestTimeoutMs
                  /\ FailureHandled(p)
                  /\ ~HasLivePending(promises[p].key)'
            /\ (Rejects(p) /\ now - promises[p].startedAt >= requestTimeoutMs) =>
                  promises'[p].result \in {TimeoutError, OpError}
    ]_vars

\* A request has timed out and a later call with the same key has started
\* a new operation.
C17_Witness ==
  \E p, q \in 1..Len(promises) :
    /\ p < q
    /\ promises[p].result = TimeoutError
    /\ promises[q].key = promises[p].key
    /\ promises[q].startedAt >= promises[p].startedAt + requestTimeoutMs
    /\ \E c \in 1..Len(calls) : calls[c].st = "invoked" /\ calls[c].promise = q

----------------------------------------------------------------------------
(* C18: per-record errors never escape the batch.  Whatever the fetchers   *)
(* or the coordinator raise, every effort of a settled batch is fulfilled  *)
(* with an outcome value (success, retryable failure or terminal failure,  *)
(* after at most MAX_RETRIES_PER_TRACK attempts), the batch is accounted   *)
(* for in the sets, and the invocation either goes on, completes, or       *)
(* pauses; it pauses only on too many consecutive failures.                *)

ErrorsRaised == {Err429, ErrNetwork, ErrFetch, ErrTimeout, ErrNotFound, ErrCircuitOpen}

IsOutcome(v) ==
  /\ v.success \in BOOLEAN
  /\ v.retryable \in BOOLEAN
  /\ v.success => ~v.retryable
  /\ v.attempts \in 1..MAX_RETRIES_PER_TRACK

\* C18: every effort settles with an outcome value; only the pause leaves
\* the backfill.
C18_ErrorsStayInTheBatch ==
  [][ Settled =>
        /\ \A j \in 1..Len(hist'.batch.results) :
              /\ hist'.batch.results[j].status = "fulfilled"
              /\ IsOutcome(hist'.batch.results[j].value)
        /\ \A e \in ErrorsRaised : \A track \in {tagData[i].track : i \in 1..Len(tagData)} :
              LET r == EffortSettles(track, TrackUri(<<"n", 0>>), <<Both(Throws(e))>>)
              IN r.status = "fulfilled" /\ IsOutcome(r.value)
        /\ hist'.ended \in {"running", "paused", "complete"}
        /\ hist'.ended = "paused" <=>
              hist'.batch.after.consecutiveFailures >= MAX_CONSECUTIVE_FAILURES
        /\ hist'.ended = "paused" => hist'.result \in {"true", "false"}
    ]_vars

\* A batch with a retryable failure, a terminal failure and a success has
\* settled and the invocation goes on with the next batch.
C18_Witness ==
  /\ pc = "throttle"
  /\ hist.batch.results # <<>>
  /\ \E j \in 1..Len(hist.batch.results) :
        (~hist.batch.results[j].value.success) /\ hist.batch.results[j].value.retryable
  /\ \E j \in 1..Len(hist.batch.results) :
        (~hist.batch.results[j].value.success) /\ ~hist.batch.results[j].value.retryable
  /\ \E j \in 1..Len(hist.batch.results) : hist.batch.results[j].value.success

----------------------------------------------------------------------------
(* C19: whenever the backfill returns normally, the checkpoint is absent   *)
(* from the Local Store; hence whenever the addTrackMetadata flag is       *)
(* persisted true, no checkpoint remains.                                  *)

C19_NoCheckpointOnceComplete ==
  migrationStore.migrations.addTrackMetadata => progressStore = NoProgress

----------------------------------------------------------------------------
(* C20, as stated: the pending migrations run in declaration order and     *)
(* every structural (synchronous) migration has fully completed before the *)
(* backfill starts: while the backfill is under way, the flags of          *)
(* cleanupEmptyTracks and of removeTrackInfoCache are both set.            *)

C20_StructuralBeforeBackfill ==
  InFlight =>
    /\ run.migrationState.migrations.cleanupEmptyTracks
    /\ run.migrationState.migrations.removeTrackInfoCache

(* C20, as the code has it: the migrations run in declaration order.       *)
(* cleanupEmptyTracks, declared before the backfill, has fully completed   *)
(* when the backfill starts: the backfill works on the cleaned dataset     *)
(* (no empty record is stored, fetched for or resolved) and the flag is    *)
(* set.  removeTrackInfoCache, declared after it, has not run while the    *)
(* backfill is under way (its flag is as stored, the cache is untouched)   *)
(* and runs in the step in which the backfill returns or pauses.           *)
C20_DeclarationOrder ==
  [][ /\ (Invoked /\ Len(tagData) > 0 /\ ~Stored.migrations.cleanupEmptyTracks) =>
            /\ \A i \in 1..Len(tagData') : ~isTrackEmpty(tagData'[i].track)
            /\ hist'.work \subseteq UriSet(cleanupEmptyTracksMigration(tagData))
            /\ hist'.endProcessed \subseteq UriSet(cleanupEmptyTracksMigration(tagData))
      /\ InFlight' =>
            /\ run'.migrationState.migrations.cleanupEmptyTracks
            /\ ~run'.migrationState.migrations.addTrackMetadata
            /\ run'.migrationState.migrations.removeTrackInfoCache
                  = Stored.migrations.removeTrackInfoCache
            /\ migrationStore' = migrationStore
      /\ (InFlight /\ InFlight') => trackInfoCache' = trackInfoCache
      /\ (Settled /\ Returned) =>
            /\ migrationStore'.migrations.removeTrackInfoCache
            /\ trackInfoCache' =
                  IF Stored.migrations.removeTrackInfoCache THEN trackInfoCache ELSE {}
    ]_vars

\* The backfill is fetching on the cleaned dataset while the cache that
\* removeTrackInfoCache will remove is still there.
C20_Witness ==
  /\ pc = "fetching"
  /\ hist.runs = 1
  /\ \A i \in 1..Len(tagData) : ~isTrackEmpty(tagData[i].track)
  /\ trackInfoCache # {}
  /\ run.migrationState.migrations.cleanupEmptyTracks
  /\ ~run.migrationState.migrations.removeTrackInfoCache

----------------------------------------------------------------------------
(* C21: a record whose fetches fail only because the coordinator rejected  *)
(* them (circuit open) or aborted them (its own timeout) is a transient    *)
(* failure for the backfill: when its batch has settled the key is in      *)
(* failed, not in processed, and it is not finalised as terminal.          *)

CoordinatorFailures == {ScriptCircuitOpen, ScriptRetryable}

TransientAt(j) ==
  LET uri == hist'.batch.results[j].value.uri
  IN /\ uri \in hist'.batch.after.failedUris
     /\ uri \notin hist'.batch.after.processedUris
     /\ uri \notin hist'.terminal

C21_CoordinatorFailuresAreTransient ==
  [][ Settled =>
        \A j \in 1..Len(hist'.batch.results) :
          hist'.batch.pattern[j] \in CoordinatorFailures => TransientAt(j)
    ]_vars

\* C21, the half that holds: the coordinator's own timeout is transient.
C21_LocalTimeoutIsTransient ==
  [][ Settled =>
        \A j \in 1..Len(hist'.batch.results) :
          hist'.batch.pattern[j] = ScriptRetryable => TransientAt(j)
    ]_vars

----------------------------------------------------------------------------
(* C22: in every reachable state consecutiveErrors is the number of failed *)
(* completions since the most recent successful completion or circuit      *)
(* reset, as an outside observer counts them; it is 0 right after every    *)
(* success and right after every auto-reset; and circuitOpen turns true    *)
(* only in a step in which consecutiveErrors has reached                   *)
(* circuitBreakerThreshold.                                                *)

Fulfils(p) == promises[p].state = "pending" /\ promises'[p].state = "fulfilled"

C22_ErrorCountIsTheFailureStreak ==
  [][ /\ consecutiveErrors' = observer'.failStreak
      /\ (\E p \in 1..Len(promises) : Fulfils(p)) => consecutiveErrors' = 0
      /\ (circuitOpen /\ ~circuitOpen') => consecutiveErrors' = 0
      /\ (~circuitOpen /\ circuitOpen') =>
            /\ consecutiveErrors' >= circuitBreakerThreshold
            /\ consecutiveErrors' = consecutiveErrors + 1
    ]_vars

\* A failure, then a success, then a failure: the count is 1, not 2.
C22_Witness ==
  /\ Len(requestHistory) = 3
  /\ ~requestHistory[1].success
  /\ requestHistory[2].success
  /\ ~requestHistory[3].success
  /\ consecutiveErrors = 1
  /\ ~circuitOpen

----------------------------------------------------------------------------
(* C23: within one run the effort for a record makes at most               *)
(* MAX_RETRIES_PER_TRACK = 3 attempts; each further attempt follows an     *)
(* attempt that raised a retryable error (429, network, timeout) and a     *)
(* wait of the backoff delay; after a non-retryable error there is no      *)
(* further attempt; and a failed effort is retryable or terminal as the    *)
(* error of its last attempt is.                                           *)

RetryableErrors == {Err429, ErrNetwork, ErrFetch, ErrTimeout}

\* the answers of the fetchers to attempt n under a script
AnswerAt(script, n) == script[Minimum(n, Len(script))]

RaisedAt(script, n) ==
  {AnswerAt(script, n)[f].error :
     f \in {g \in {"track", "bpm"} : AnswerAt(script, n)[g].kind = "error"}}

C23_AttemptsOfOneEffort ==
  [][ Settled =>
        \A j \in 1..Len(hist'.batch.results) :
          LET v == hist'.batch.results[j].value
              script == hist'.batch.pattern[j]
          IN /\ v.attempts \in 1..MAX_RETRIES_PER_TRACK
             /\ \A n \in 1..(v.attempts - 1) :
                   /\ RaisedAt(script, n) # {}
                   /\ RaisedAt(script, n) \subseteq RetryableErrors
             /\ Len(v.waits) = v.attempts - 1
             /\ \A n \in 1..Len(v.waits) :
                   v.waits[n] = Minimum(BackoffBaseMs * Pow2(n), BackoffCapMs)
             /\ v.success => ~v.retryable
             /\ (~v.success) =>
                   /\ RaisedAt(script, v.attempts) # {}
                   /\ v.retryable <=> RaisedAt(script, v.attempts) \subseteq RetryableErrors
                   /\ v.retryable => v.attempts = MAX_RETRIES_PER_TRACK
    ]_vars

\* One batch has settled with an effort that succeeded at its third attempt
\* after two waits, one that failed on three timeouts and one that stopped
\* at its first, non-retryable error.
C23_Witness ==
  /\ hist.batch.results # <<>>
  /\ \E j \in 1..Len(hist.batch.results) :
        LET v == hist.batch.results[j].value
        IN v.success /\ v.attempts = 3 /\ Len(v.waits) = 2
  /\ \E j \in 1..Len(hist.batch.results) :
        LET v == hist.batch.results[j].value
        IN (~v.success) /\ v.retryable /\ v.attempts = 3
  /\ \E j \in 1..Len(hist.batch.results) :
        LET v == hist.batch.results[j].value
        IN (~v.success) /\ (~v.retryable) /\ v.attempts = 1

----------------------------------------------------------------------------
(* C24: the batches of the network pass run strictly one after the other   *)
(* with bounded concurrency.  While a batch is in flight its efforts are   *)
(* at most BATCH_SIZE = 5, all of the same batch; the keys fetched so far  *)
(* are those of this batch and of the batches before it; no key of this or *)
(* a later batch has been moved in the sets by this run; and the step that *)
(* updates the sets and persists is the one in which every effort of the   *)
(* batch has settled.  The first fetch of the next batch comes after it.   *)

UpTo(n) == SeqToSet(SubSeq(run.stillNeedWork, 1, Minimum(n, Len(run.stillNeedWork))))

From(n) == SeqToSet(SubSeq(run.stillNeedWork, n + 1, Len(run.stillNeedWork)))

BatchesInOrder ==
  /\ pc = "fetching" =>
        /\ Len(BatchOf(run.stillNeedWork, run.i)) \in 1..BATCH_SIZE
        /\ hist.fetched = UpTo(run.i + BATCH_SIZE)
        /\ (run.processedUris \cup run.failedUris) \cap From(run.i)
              \subseteq hist.startFailed
  /\ pc = "throttle" =>
        /\ hist.fetched = UpTo(run.i + BATCH_SIZE)
        /\ (run.processedUris \cup run.failedUris) \cap From(run.i + BATCH_SIZE)
              \subseteq hist.startFailed

C24_BatchesStrictlySequential ==
  [][ /\ BatchesInOrder'
      /\ Settled =>
            /\ Len(hist'.batch.results) = Len(BatchOf(run.stillNeedWork, run.i))
            /\ {hist'.batch.results[j].value.uri : j \in 1..Len(hist'.batch.results)}
                  = UpTo(run.i + BATCH_SIZE) \ UpTo(run.i)
      /\ (InFlight /\ (progressStore' # progressStore \/ tagData' # tagData)) => Settled
      /\ (InFlight /\ hist'.fetched # hist.fetched /\ pc' # "idle") =>
            /\ pc = "throttle"
            /\ hist.batch.results # <<>>
            /\ hist'.fetched \ hist.fetched = UpTo(run.i + 2 * BATCH_SIZE) \ UpTo(run.i + BATCH_SIZE)
    ]_vars

\* The third batch is in flight: ten keys have been settled, five are being
\* fetched.
C24_Witness ==
  /\ pc = "fetching"
  /\ run.i = 2 * BATCH_SIZE
  /\ Cardinality(hist.fetched) = 3 * BATCH_SIZE
  /\ Cardinality(run.processedUris \cup run.failedUris) >= 2 * BATCH_SIZE

----------------------------------------------------------------------------
(* C25, as claimed: while the network pass of the backfill is under way a  *)
(* checkpoint named addTrackMetadata is in the Local Store.                *)

\* the keys this invocation resolved from the cache before its first fetch
CacheResolved ==
  (run.processedUris \ hist.startProcessed) \ SeqToSet(run.stillNeedWork)

C25_WitnessCache ==
  /\ InFlight
  /\ ~IsResumable(hist.loaded)
  /\ CacheResolved # {}
  /\ SettledBatches <= SAVE_EVERY_N_BATCHES
  /\ IsResumable(progressStore)

----------------------------------------------------------------------------
(* The network pass under lasting partial failure: in any batch one fetch  *)
(* can fail while the others succeed, so that the consecutive-failure      *)
(* count never reaches the pause and the delay between batches can climb   *)
(* to its cap.                                                             *)

OneFails == [j \in 1..BATCH_SIZE |-> IF j = 1 THEN ScriptRetryable ELSE ScriptOk]

ThrottlePatterns == {AllOf(ScriptOk), OneFails}

InitThrottle ==
  /\ InitDriver
  /\ tagData = InitialData
  /\ migrationStore = NoState

NextThrottle ==
  \/ RunMigrations
  \/ \E pattern \in ThrottlePatterns : SettleBatch(pattern)
  \/ NextBatch

SpecThrottle == InitThrottle /\ [][NextThrottle]_vars

\* The values of the delay between batches, in 1/32 ms: 500 ms, then 1.5
\* times the value before, up to the cap of 5000 ms.
DelayLadder ==
  << 500 * 32, 750 * 32, 1125 * 32, 54000, 81000, 121500, 5000 * 32 >>

Rung(d) == CHOOSE n \in 0..Len(DelayLadder) :
             IF d \in SeqToSet(DelayLadder)
             THEN n >= 1 /\ DelayLadder[n] = d
             ELSE n = 0

BatchFailed(results) == \E j \in 1..Len(results) : ~results[j].value.success

\* C26: the delay between batches starts at 500 ms; a batch with at least
\* one failure multiplies it by 1.5, up to 5000 ms; a batch in which every
\* record succeeded sets it back to 500 ms; it is always within
\* [500, 5000] ms.
C26_DelayBetweenBatches ==
  [][ /\ (Invoked /\ pc' = "fetching") => Rung(run'.currentDelay) = 1
      /\ (Settled /\ pc' = "throttle") =>
            /\ Rung(run.currentDelay) >= 1
            /\ Rung(run'.currentDelay) =
                  IF BatchFailed(hist'.batch.results)
                  THEN Minimum(Rung(run.currentDelay) + 1, Len(DelayLadder))
                  ELSE 1
            /\ run'.currentDelay >= BASE_DELAY_BETWEEN_BATCHES_MS * DelayScale
            /\ run'.currentDelay <= MaxBatchDelayMs * DelayScale
      /\ (pc = "throttle" /\ pc' = "fetching") => run'.currentDelay = run.currentDelay
    ]_vars

\* The delay has stayed at its cap through a further failing batch.
C26_Witness ==
  /\ pc = "throttle"
  /\ run.i = 7 * BATCH_SIZE
  /\ run.currentDelay = MaxBatchDelayMs * DelayScale
  /\ BatchFailed(hist.batch.results)

\* The delay is back at its base value after having been raised.
C26_WitnessReset ==
  /\ pc = "throttle"
  /\ run.i = 3 * BATCH_SIZE
  /\ run.failedUris # {}
  /\ ~BatchFailed(hist.batch.results)
  /\ run.currentDelay = BASE_DELAY_BETWEEN_BATCHES_MS * DelayScale

----------------------------------------------------------------------------
(* C27: the keys a run of the backfill works on.                           *)

\* the dataset the driver hands to the backfill
RunInput ==
  IF Stored.migrations.cleanupEmptyTracks THEN tagData
  ELSE SelectSeq(tagData, LAMBDA e : ~isTrackEmpty(e.track))

BackfillRuns == ~HasNoTracks(tagData) /\ ~Stored.migrations.addTrackMetadata

Targets ==
  {RunInput[i].uri : i \in {n \in 1..Len(RunInput) :
      /\ ~IsLocalUri(RunInput[n].uri)
      /\ \/ RunInput[n].track.name = Absent
         \/ RunInput[n].track.artists = Absent
         \/ RunInput[n].track.bpm = NullBpm}}

LoadedProcessed ==
  IF progressStore.migrationName = "addTrackMetadata"
  THEN progressStore.processedUris ELSE {}

LoadedFailed ==
  IF progressStore.migrationName = "addTrackMetadata"
  THEN progressStore.failedUris ELSE {}

Remaining == {k \in Targets : k \notin LoadedProcessed \/ k \in LoadedFailed}

\* C27: an invocation that runs the backfill works on exactly the target
\* keys that are not in the processed set or are in the failed set of the
\* loaded checkpoint (empty sets without one): each of them either goes to
\* the network pass or is resolved by the cache pass, and no other key
\* does.  The targets are the records that are not local files and lack a
\* name, artists or a bpm.  With no target the backfill returns its input
\* and touches nothing else.
C27_WorksOnExactlyRemaining ==
  [][ (Invoked /\ BackfillRuns) =>
        LET resolved == IF pc' = "fetching"
                        THEN run'.processedUris \ LoadedProcessed
                        ELSE hist'.endProcessed \ LoadedProcessed
        IN /\ hist'.work \cup resolved = Remaining
           /\ hist'.work \cap resolved = {}
           /\ hist'.fetched \subseteq Remaining
           /\ Targets = {} =>
                 /\ tagData' = RunInput
                 /\ progressStore' = progressStore
                 /\ pc' = "idle"
                 /\ hist'.fetched = {}
    ]_vars

\* A resumed run under way: it left out a processed key and took up a failed
\* one, and the dataset holds a local file that lacks every field.
C27_Witness ==
  /\ pc = "fetching"
  /\ hist.runs = 2
  /\ hist.startProcessed # {}
  /\ hist.startFailed \cap hist.work # {}
  /\ hist.startProcessed \cap hist.work = {}
  /\ \E i \in 1..Len(tagData) :
        IsLocalUri(tagData[i].uri) /\ tagData[i].track.bpm = NullBpm

\* A first run of the backfill that found no target: the hook had filled
\* every record before it.
C27_WitnessNoTarget ==
  /\ hist.runs = 1
  /\ hist.prevEnded = "backfilled"
  /\ \A i \in 1..Len(tagData) : ~isTrackEmpty(tagData[i].track)
  /\ hist.ended = "complete"
  /\ hist.work = {}
  /\ hist.endProcessed = {}
  /\ hist.notified >= 1
  /\ tagData # <<>>

----------------------------------------------------------------------------
(* C28: the cache pass of the backfill.                                    *)

InputTrack(k) ==
  RunInput[CHOOSE i \in 1..Len(RunInput) : RunInput[i].uri = k].track

\* C28: the first pass fetches nothing.  A remaining key is marked
\* processed by it only when the record lacked nothing but name and artists
\* and the local cache held them, and the record then carries the cached
\* values; every other remaining key goes to the network pass.  When the
\* pass resolved at least one key the dataset and the checkpoint are
\* stored after it, with the resolved keys in the processed set; when it
\* resolved none, neither is written.
C28_CachePass ==
  [][ (Invoked /\ BackfillRuns /\ Targets # {}) =>
        LET resolved == IF pc' = "fetching"
                        THEN run'.processedUris \ LoadedProcessed
                        ELSE hist'.endProcessed \ LoadedProcessed
        IN /\ resolved \cap hist'.fetched = {}
           /\ hist'.fetched \subseteq hist'.work
           /\ \A k \in resolved :
                 /\ k \in Remaining
                 /\ k \in trackInfoCache
                 /\ InputTrack(k).bpm # NullBpm
                 /\ \E i \in 1..Len(tagData') :
                       /\ tagData'[i].uri = k
                       /\ tagData'[i].track =
                            [InputTrack(k) EXCEPT !.name = CachedName,
                                                  !.artists = CachedArtists]
           /\ \A k \in Remaining \ resolved :
                 /\ k \in hist'.work
                 /\ \/ InputTrack(k).bpm = NullBpm
                    \/ k \notin trackInfoCache
                    \/ k \in LoadedFailed \ LoadedProcessed
           /\ pc' = "fetching" =>
                 IF resolved # {}
                 THEN /\ progressStore'.migrationName = "addTrackMetadata"
                      /\ progressStore'.processedUris = LoadedProcessed \cup resolved
                      /\ progressStore'.failedUris = LoadedFailed \ resolved
                      /\ UrisOf(tagData') = UrisOf(RunInput)
                 ELSE /\ progressStore' = progressStore
                      /\ tagData' = RunInput
    ]_vars

\* After the cache pass of a first run: one key resolved and stored, and a
\* key whose name the cache held but whose bpm is missing is being fetched.
C28_Witness ==
  /\ pc = "fetching"
  /\ run.i = 0
  /\ hist.runs = 1
  /\ CacheResolved # {}
  /\ progressStore.processedUris = CacheResolved
  /\ \E k \in hist.fetched \cap CachedUris : TRUE

\* The network pass begun after a cache pass that resolved nothing.
C28_WitnessNothingResolved ==
  /\ pc = "fetching"
  /\ run.i = 0
  /\ hist.runs = 1
  /\ CacheResolved = {}
  /\ progressStore = NoProgress

----------------------------------------------------------------------------
(* C29: the age of the entries of the rolling history.                     *)

\* the calls that went through the rate-limit check in this step
RateChecked ==
  {c \in 1..Len(calls') :
     /\ c > Len(calls) \/ calls'[c] # calls[c]
     /\ calls'[c].st \in {"delay", "invoked"}}

\* C29, as claimed: in every reachable state no entry of the history is
\* older than 60 s.
C29_NoEntryOlderThanAMinute ==
  \A i \in 1..Len(requestHistory) : now - requestHistory[i].timestamp <= MinuteMs

\* C29: right after every rate-limit check the history holds no entry with
\* now - timestamp >= 60 s.  Nothing else removes an entry: apart from the
\* check, the history only grows, by an entry stamped with the current time.
C29_PrunedByEveryCheck ==
  [][ /\ RateChecked # {} =>
            \A i \in 1..Len(requestHistory') :
               now' - requestHistory'[i].timestamp < MinuteMs
      /\ (RateChecked = {} /\ requestHistory' # requestHistory) =>
            /\ Len(requestHistory') = Len(requestHistory) + 1
            /\ SubSeq(requestHistory', 1, Len(requestHistory)) = requestHistory
            /\ requestHistory'[Len(requestHistory')].timestamp = now
    ]_vars

\* A check has dropped the entry of a request settled more than a minute
\* ago and has admitted the call that ran it.
C29_Witness ==
  /\ requestHistory = <<>>
  /\ \E p \in 1..Len(promises) :
        /\ promises[p].state # "pending"
        /\ now - promises[p].startedAt >= MinuteMs + requestTimeoutMs
  /\ \E c \in 1..Len(calls) :
        /\ calls[c].st = "invoked"
        /\ promises[calls[c].promise].startedAt = now

----------------------------------------------------------------------------
(* C30: the wait returned by a rejecting rate-limit check.                 *)

LiveSamples == {i \in 1..Len(requestHistory) : now - requestHistory[i].timestamp < MinuteMs}

SecondSamples == {i \in LiveSamples : now - requestHistory[i].timestamp < SecondMs}

Oldest(samples) == Min({requestHistory[i].timestamp : i \in samples})

\* the calls the rate-limit check rejected in this step
RateRejected == {c \in RateChecked : calls'[c].st = "delay"}

\* C30: a rejecting check returns the time until the oldest sample of the
\* violated window leaves it: within (0, 1000] ms when the last second
\* holds maxRequestsPerSecond samples, within (0, 60000] ms when it does
\* not and the last minute holds maxRequestsPerMinute samples.  The
\* violated window holds a sample, so the wait is never a fallback taken
\* for want of one.
C30_WaitUntilOldestExpires ==
  [][ \A c \in RateRejected :
        LET wait == calls'[c].retryAfterMs
        IN IF Cardinality(SecondSamples) >= maxRequestsPerSecond
           THEN /\ SecondSamples # {}
                /\ wait = SecondMs - (now - Oldest(SecondSamples))
                /\ wait > 0 /\ wait <= SecondMs
           ELSE /\ Cardinality(LiveSamples) >= maxRequestsPerMinute
                /\ LiveSamples # {}
                /\ wait = MinuteMs - (now - Oldest(LiveSamples))
                /\ wait > 0 /\ wait <= MinuteMs
    ]_vars

\* A call rejected on the per-minute limit: no sample in the last second,
\* two samples of different ages in the last minute.
C30_Witness ==
  \E c \in 1..Len(calls) :
    /\ calls[c].st = "delay"
    /\ calls[c].retryAfterMs > SecondMs
    /\ calls[c].wakeAt - now = calls[c].retryAfterMs
    /\ Len(requestHistory) = maxRequestsPerMinute
    /\ requestHistory[1].timestamp < requestHistory[2].timestamp
    /\ calls[c].retryAfterMs = MinuteMs - (now - requestHistory[1].timestamp)

\* A call rejected on the per-second limit with the longest wait, 1000 ms.
C30_WitnessSecond ==
  \E c \in 1..Len(calls) :
    /\ calls[c].st = "delay"
    /\ calls[c].retryAfterMs = SecondMs
    /\ calls[c].wakeAt = now + SecondMs

----------------------------------------------------------------------------
(* The driver under an event loop that runs what is due: the fetches of a  *)
(* batch settle (each within its timeout) and the delay between batches    *)
(* ends.  Launches of the application and its closing stay up to the user. *)

BatchSettles == \E pattern \in PatternsAt(run.i \div BATCH_SIZE) : SettleBatch(pattern)

\* Weak fairness of BatchSettles, written out: the step is possible exactly
\* while pc = "fetching" and always leaves that state.
BatchesSettle == []<>(pc # "fetching") \/ []<><<BatchSettles>>_vars

DriverProgress == WF_vars(NextBatch) /\ BatchesSettle

InitLaunch == InitDriver

SpecMigFair == InitLaunch /\ [][NextMig]_vars /\ DriverProgress

----------------------------------------------------------------------------
(* C31: the processed and the failed set of a checkpoint.                  *)

Overlap(progress) ==
  IsResumable(progress) /\ progress.processedUris \cap progress.failedUris # {}

\* C31, as claimed: a stored checkpoint whose processed and failed sets
\* share a key comes about.
C31_OverlapIsReached == <>Overlap(progressStore)

\* C31: as the code has it, no key is ever in both sets, neither in a
\* stored checkpoint nor in the sets of a running invocation: a key that
\* failed for good is marked processed and taken out of the failed set.
C31_ProcessedAndFailedDisjoint ==
  /\ progressStore.processedUris \cap progressStore.failedUris = {}
  /\ InFlight => run.processedUris \cap run.failedUris = {}

\* A stored checkpoint left by a pause: a key that had failed retryably in
\* an earlier run failed for good in this one; it is processed, not failed,
\* while other keys are still in the failed set.
C31_Witness ==
  /\ hist.ended = "paused"
  /\ IsResumable(progressStore)
  /\ progressStore.failedUris # {}
  /\ hist.startFailed \cap hist.terminal \cap progressStore.processedUris # {}

----------------------------------------------------------------------------
(* C32: whose pending entry a settling call removes.                       *)

\* the promises that settle in this step
Settling ==
  {p \in 1..Len(promises) : promises[p].state = "pending" /\ promises'[p].state # "pending"}

\* C32: a promise that settles removes the pending entry of its key only
\* when that entry is its own; the entry of a newer call for the key stays
\* in the table, and a caller arriving while the newer call is in flight
\* finds it.
C32_SettlingRemovesOwnEntry ==
  [][ \A p \in Settling :
        LET k == promises[p].key
        IN (pendingRequests[k] # NoPending /\ pendingRequests[k].promise # p)
             => pendingRequests'[k] = pendingRequests[k]
    ]_vars

----------------------------------------------------------------------------
(* C33: the cool-down deadline of an open circuit.                         *)

\* C33: while the circuit is open the instant at which it opened does not
\* move, and the completion of a call admitted before it opened, a failure
\* or a success, leaves the circuit open.
C33_DeadlineFixedWhileOpen ==
  [][ circuitOpen =>
        /\ circuitOpen' => circuitOpenedAt' = circuitOpenedAt
        /\ Settling # {} => circuitOpen'
    ]_vars

\* The half of C33 that the code keeps: a completion never closes the
\* circuit, and a successful one leaves the deadline where it is.
C33_CompletionsDoNotClose ==
  [][ (circuitOpen /\ Settling # {}) =>
        /\ circuitOpen'
        /\ (\A p \in Settling : promises'[p].state = "fulfilled")
              => circuitOpenedAt' = circuitOpenedAt
    ]_vars

----------------------------------------------------------------------------
(* C34: what a rejected or an attaching call leaves alone.                 *)

\* the calls that went through execute in this step and left it this way
Left(st) ==
  {c \in 1..Len(calls') :
     /\ c > Len(calls) \/ calls'[c] # calls[c]
     /\ calls'[c].st = st}

C34_WitnessRejected ==
  /\ circuitOpen
  /\ \E c \in 1..Len(calls) : calls[c].st = "circuitOpen"
  /\ consecutiveErrors >= circuitBreakerThreshold

----------------------------------------------------------------------------
(* C35: the count of consecutive failures and the pause.                   *)

FailedIn(results) == {j \in 1..Len(results) : ~results[j].value.success}

\* C35: after a batch the count of consecutive failures is the number of
\* failed records of the batch, added to 0 when a record of the batch
\* succeeded and to the count before the batch when none did.  The
\* invocation pauses after the batch exactly when that count is at least
\* MAX_CONSECUTIVE_FAILURES = 10; a batch that starts from 0 never pauses.
C35_ConsecutiveFailures ==
  [][ Settled =>
        LET results == hist'.batch.results
            before == hist'.batch.before.consecutiveFailures
            after == hist'.batch.after.consecutiveFailures
            failed == Cardinality(FailedIn(results))
        IN /\ before = run.consecutiveFailures
           /\ after = (IF failed < Len(results) THEN 0 ELSE before) + failed
           /\ (hist'.ended = "paused") <=> (after >= 10)
           /\ pc' = "throttle" => run'.consecutiveFailures = after
           /\ before = 0 => hist'.ended # "paused"
           /\ failed <= 5
    ]_vars

\* After a batch of failures only, a batch with successes and failures has
\* settled: the count is that of its own failures.
C35_Witness ==
  /\ pc = "throttle"
  /\ hist.batch.results # <<>>
  /\ hist.batch.before.consecutiveFailures = BATCH_SIZE
  /\ FailedIn(hist.batch.results) # {}
  /\ hist.batch.after.consecutiveFailures = Cardinality(FailedIn(hist.batch.results))
  /\ run.consecutiveFailures = hist.batch.after.consecutiveFailures

\* Two batches of failures only: the count reached 10 and the run paused.
C35_WitnessPause ==
  /\ hist.ended = "paused"
  /\ hist.batch.before.consecutiveFailures = BATCH_SIZE
  /\ hist.batch.after.consecutiveFailures = 2 * BATCH_SIZE

----------------------------------------------------------------------------
(* C36: what the backfill changes in the dataset it writes.  A write of    *)
(* the backfill is compared with the dataset it replaces: the dataset the  *)
(* driver handed in, for the writes of the invocation's first step, and    *)
(* the stored dataset, for the writes after a settled batch.               *)

BackfillWrites == (Invoked /\ BackfillRuns) \/ Settled

WriteBase == IF Settled THEN tagData ELSE RunInput

\* the keys that have succeeded by the end of this step
SucceededAfter ==
  (IF pc' = "idle" THEN hist'.endProcessed ELSE run'.processedUris) \ hist'.terminal

SameRecords ==
  /\ UrisOf(tagData') = UrisOf(WriteBase)
  /\ \A i \in 1..Len(WriteBase) :
        /\ tagData'[i].track.rating = WriteBase[i].track.rating
        /\ tagData'[i].track.energy = WriteBase[i].track.energy
        /\ tagData'[i].track.tags = WriteBase[i].track.tags

\* C36, as claimed: only records that succeeded change, and of them only
\* the fields name, artists and bpm, each only where it was missing.
C36_OnlyMissingFieldsOfSucceeded ==
  [][ BackfillWrites =>
        /\ SameRecords
        /\ \A i \in 1..Len(WriteBase) :
              LET b == WriteBase[i].track
                  w == tagData'[i].track
              IN /\ w # b => WriteBase[i].uri \in SucceededAfter
                 /\ w.name # b.name => b.name = Absent
                 /\ w.artists # b.artists => b.artists = Absent
                 /\ w.bpm # b.bpm => b.bpm = NullBpm
    ]_vars

\* C36: as the code has it.  No record is added or removed and rating,
\* energy and tags never change.  The bpm changes only where it was null,
\* to the fetched value, in a record that succeeded.  Name and artists
\* change together, in a record that lacked one of them: to the fetched
\* pair in a record that succeeded, or to the cached pair in a record the
\* cache holds, whatever became of the record afterwards.
C36_WritesOnlyBackfilledFields ==
  [][ BackfillWrites =>
        /\ SameRecords
        /\ \A i \in 1..Len(WriteBase) :
              LET b == WriteBase[i].track
                  w == tagData'[i].track
                  k == WriteBase[i].uri
              IN /\ w # b => ~IsLocalUri(k)
                 /\ <<w.name, w.artists>> # <<b.name, b.artists>> =>
                       /\ b.name = Absent \/ b.artists = Absent
                       /\ \/ /\ <<w.name, w.artists>> = <<FetchedName, FetchedArtists>>
                             /\ k \in SucceededAfter
                          \/ /\ <<w.name, w.artists>> = <<CachedName, CachedArtists>>
                             /\ k \in trackInfoCache
                 /\ w.bpm # b.bpm =>
                       /\ b.bpm = NullBpm
                       /\ w.bpm = FetchedBpm
                       /\ k \in SucceededAfter
    ]_vars

\* A completed run has written its dataset: a record that had a name and
\* no artists carries the fetched name, a record that failed for good still
\* lacks its bpm, and the local file lacks everything as before.
C36_Witness ==
  /\ hist.ended = "complete"
  /\ \E i \in 1..Len(tagData) :
        /\ tagData[i].uri = TrackUri(<<"titled", 0>>)
        /\ tagData[i].track.name = FetchedName
  /\ \E i \in 1..Len(tagData) :
        /\ tagData[i].uri \in hist.terminal
        /\ tagData[i].track.bpm = NullBpm
  /\ \E i \in 1..Len(tagData) :
        /\ IsLocalUri(tagData[i].uri)
        /\ tagData[i].track = Rated(Absent, Absent, NullBpm)

----------------------------------------------------------------------------
(* The driver next to the keyboard shortcuts of the application, which     *)
(* read the stored dataset, change one record and store it again           *)
(* (KeyboardShortcutService.ts:187-224), at any moment.                    *)

\* lines 196-205: the record setRating creates for a key that has none
NewTrack ==
  [name |-> Absent, artists |-> Absent, bpm |-> NullBpm,
   rating |-> 0, energy |-> 0, tags |-> <<>>]

\* KeyboardShortcutService.setRating, lines 187-224
setRating(trackUri, rating) ==
  /\ LET data0 == IF trackUri \in UriSet(tagData) THEN tagData
                  ELSE Append(tagData, [uri |-> trackUri, track |-> NewTrack])
         trackData == TrackOf(data0, trackUri)
     IN /\ tagData' =
             IF rating = 0 /\ trackData.energy = 0 /\ Len(trackData.tags) = 0
             THEN SelectSeq(data0, LAMBDA e : e.uri # trackUri)
             ELSE SetTrack(data0, trackUri, [trackData EXCEPT !.rating = rating])
        /\ tagData' # tagData
  /\ UNCHANGED <<migrationStore, progressStore, trackInfoCache, pc, run, hist>>
  /\ UNCHANGED rlVars

\* the keys the user rates and the ratings given (0 clears the rating)
RatedKeys == {TrackUri(<<"complete", 0>>), TrackUri(<<"new", 0>>)}

Ratings == {0, 5}

InitShared ==
  /\ InitDriver
  /\ tagData = InitialData
  /\ migrationStore = NoState
  /\ trackInfoCache = {}

NextShared ==
  \/ RunMigrations
  \/ SettleBatch(AllOf(ScriptOk))
  \/ NextBatch
  \/ \E trackUri \in RatedKeys, rating \in Ratings : setRating(trackUri, rating)

SpecShared == InitShared /\ [][NextShared]_vars

\* the stored record of key k, if there is one
Entries(data, k) == {data[i].track : i \in {j \in 1..Len(data) : data[j].uri = k}}

\* the step is the settling of a batch, also where other writers take steps
BatchSettled == pc = "fetching" /\ pc' # "fetching"

\* C37: a dataset write of a running backfill leaves the stored record of
\* every key the run does not work on as it finds it: what another
\* component has stored for such a key since the run began, a rating, a new
\* record or a removal, is still there after the write.
C37_ConcurrentWritesSurvive ==
  [][ BatchSettled =>
        \A k \in (UriSet(tagData) \cup UriSet(tagData')) \ hist.work :
          Entries(tagData', k) = Entries(tagData, k)
    ]_vars

----------------------------------------------------------------------------
(* The driver over two launches where whole batches fail among the first   *)
(* three of a launch, so that a launch can pause, and the next launch can  *)
(* fetch a batch and pause again.                                          *)

EarlyBatches == {0, 1, 2}

ResumePatternsAt(batchNumber) ==
  IF batchNumber \in EarlyBatches THEN {AllOf(ScriptOk), AllOf(ScriptTerminal)}
  ELSE {AllOf(ScriptOk)}

InitFirstLaunch == InitShared

NextResume ==
  \/ RunMigrations
  \/ \E pattern \in ResumePatternsAt(run.i \div BATCH_SIZE) : SettleBatch(pattern)
  \/ NextBatch

SpecResume == InitFirstLaunch /\ [][NextResume]_vars

\* C38: an invocation that returns with a write of a dataset differing from
\* the stored one, or with a migration flag flipped in the stored state,
\* returns true; this includes the invocation that pauses after its
\* backfill has fetched fields.
C38_ReturnsTrueWhenChanged ==
  [][ (Returned /\ (tagData' # tagData \/ FlippedFlags # {}))
        => hist'.result = "true"
    ]_vars

----------------------------------------------------------------------------
(* C39: every invocation of runMigrations terminates, provided the delay   *)
(* between batches runs out and every batch of fetches settles.  An        *)
(* invocation that is suspended eventually is not (it has completed or     *)
(* handled the pause, or the application was closed); on the way each      *)
(* resumption of the loop moves on by one batch within the keys that still *)
(* need work, and no effort of a settled batch has made more than          *)
(* MAX_RETRIES_PER_TRACK attempts.                                         *)

LoopAdvances ==
  (pc = "throttle" /\ pc' = "fetching") =>
     /\ run'.i = run.i + BATCH_SIZE
     /\ run'.i < Len(run.stillNeedWork)
     /\ run'.stillNeedWork = run.stillNeedWork

AttemptsBounded ==
  Settled =>
    \A j \in 1..Len(hist'.batch.results) :
      hist'.batch.results[j].value.attempts \in 1..MAX_RETRIES_PER_TRACK

C39_InvocationTerminates ==
  /\ InFlight ~> (pc = "idle")
  /\ [][LoopAdvances /\ AttemptsBounded]_vars

\* An invocation has gone through every batch of a full first launch and
\* returned, with an effort that took all three attempts on its way.
C39_Witness ==
  /\ pc = "idle"
  /\ hist.ended = "complete"
  /\ Cardinality(hist.fetched) > 10 * BATCH_SIZE
  /\ hist.fetched = hist.work
  /\ hist.endFailed # {}

\* An invocation has ended with the pause.
C39_WitnessPause ==
  /\ pc = "idle"
  /\ hist.ended = "paused"
  /\ Cardinality(hist.fetched) = 2 * BATCH_SIZE

----------------------------------------------------------------------------
(* needsMigrations, lines 483-490: what the application asks before it     *)
(* calls the driver.                                                       *)

\* The question answered from the version alone.
needsMigrations_VersionOnly(store) ==
  getMigrationState(store).version # CURRENT_VERSION

needsMigrations(store) ==
  LET migrationState == getMigrationState(store)
  IN \/ migrationState.version # CURRENT_VERSION
     \/ ~migrationState.migrations.cleanupEmptyTracks
     \/ ~migrationState.migrations.addTrackMetadata

\* the invocation of this step runs no migration and persists no state
QuietRun ==
  /\ migrationStore' = migrationStore
  /\ \/ hist'.ended = "noop"
     \/ hist'.ended = "complete" /\ FlippedFlags = {}

\* C40, as claimed: after any sequence of invocations, needsMigrations()
\* returns false exactly when the following invocation runs no migration
\* and persists no state, and true while the backfill flag is unset.
C40_AgreesWithDriver ==
  [][ (Invoked /\ hist.runs >= 1) =>
        /\ ~needsMigrations(migrationStore) <=> QuietRun
        /\ ~Stored.migrations.addTrackMetadata => needsMigrations(migrationStore)
    ]_vars

\* C40, as the code has it: when needsMigrations() returns false the
\* following invocation runs no migration and persists no state; an
\* invocation on a dataset that has records and that runs no migration and
\* persists no state was preceded by the answer false; and the answer is
\* true while the backfill flag is unset.  On a dataset without records the
\* invocation returns at once whatever needsMigrations() says.
C40_FalseMeansNothingToDo ==
  [][ Invoked =>
        /\ ~needsMigrations(migrationStore) => QuietRun
        /\ (QuietRun /\ ~HasNoTracks(tagData)) => ~needsMigrations(migrationStore)
        /\ ~Stored.migrations.addTrackMetadata => needsMigrations(migrationStore)
    ]_vars

\* After a completed invocation needsMigrations() was false and the second
\* invocation did nothing.
C40_Witness ==
  /\ hist.runs = 2
  /\ hist.prevEnded = "complete"
  /\ hist.ended = "complete"
  /\ hist.result = "false"
  /\ hist.notified = 0
  /\ Len(tagData) > 0
  /\ ~needsMigrations(migrationStore)

\* After a paused invocation needsMigrations() is true and the second
\* invocation has taken up the backfill.
C40_WitnessPaused ==
  /\ hist.runs = 2
  /\ hist.prevEnded = "paused"
  /\ pc = "fetching"
  /\ needsMigrations(migrationStore)

\* Two invocations on a dataset without records: both returned at once and
\* needsMigrations() is still true.
C40_WitnessNoTracks ==
  /\ hist.runs = 2
  /\ hist.prevEnded = "noop"
  /\ hist.ended = "noop"
  /\ needsMigrations(migrationStore)

====
